---- MODULE Spec2Model ----
(***************************************************************************)
(* Model of the OpenAPI import-and-synthesis engine of hoppscotch-data:     *)
(*   importers/helpers/mock-generator.ts   generateMockFromSchema           *)
(*   importers/openapi/index.ts            hoppOpenAPIImporter and the      *)
(*                                         converter it ends in             *)
(***************************************************************************)
EXTENDS Integers, Sequences, FiniteSets, TLC

(***************************************************************************)
(* Bounds of the model.                                                     *)
(***************************************************************************)
\* number of distinct schema nodes of a schema graph
NumNodes == 2
\* longest properties / allOf / oneOf list of a schema node
MaxKids == 2
\* largest declared minItems of an array schema
MaxMinItems == 2
\* most references to schema nodes (items, properties, composition members)
\* in a schema graph
MaxRefs == 3

\* longest batch of files given to the importer
MaxFiles == 2
\* most operations of one document handed to the converter on its own
MaxOps == 2
\* longest tags list of an operation
MaxTags == 2
\* most entries an operation's `responses` object has
MaxResponses == 2
\* most calls a host makes on the shared worker
MaxCalls == 3

VARIABLES
  \* ---- hoppOpenAPIImporter ------------------------------------------------
  fileContents, \* the batch: one file content per entry
  hasWindow,    \* typeof window !== "undefined": the worker backend is used
  worker,       \* the module-level worker handle: "null" or "created"
  pc,           \* where the importer call stands
  idx,          \* index of the document the current stage's loop is at
  docArr,       \* the parsed documents (input of the validation stage)
  resultDoc,    \* resultDoc of the validation stage (input of dereference)
  derefDoc,     \* resultDoc of the dereference stage (input of conversion)
  outcome,      \* what the call returned: pending, left, right, thrown
  inbox,        \* messages posted to the worker, not yet handled by it
  outbox,       \* messages posted by the worker, not yet delivered
  onmessage,    \* the result type the installed onmessage handler settles on
  posted,       \* history: every message posted to the worker, in order
  validateCalls, \* history: the arguments of the validateDocs calls
  derefCalls,   \* history: the arguments of the dereferenceDocs calls
  convertCalls, \* history: the arguments of the convertOpenApiDocsToHopp calls
  validFail,    \* history: indices whose validateDocs promise was rejected
  derefFail,    \* history: indices whose dereferencing failed
  \* ---- convertOpenApiDocsToHopp called on its own ------------------------
  cDocs,      \* the documents handed to the converter
  cFallback,  \* the fallbackBaseUrl handed to the converter ("" when absent)
  cFaker,     \* what faker.word.noun() returns in the first and in the second
              \* parseOpenAPIBody call made for a request
  cOut,       \* what the call produced: pending, right(collections), thrown
  heap,       \* object id -> number of writes made to that object since
  \* ---- generateMockFromSchema --------------------------------------------
  schemas,    \* the schema graph: node id -> schema object
  stack,      \* call stack of generateMockFromSchema activations
  sets,       \* the Set objects created so far (visited sets), by identity
  result,     \* value returned by the outermost call, once it returned
  mockPc,     \* "run" while a call is active, "done" after the return
  calls,      \* number of generateMockFromSchema activations entered
  \* ---- the integer / number branch of generateMockFromSchema -------------
  numSchema,  \* the numeric schema handed to the branch
  numOut,     \* what the branch did: pending, value(v), thrown
  \* ---- a host calling validateDocs / dereferenceDocs on one worker ------
  hCalls,     \* the calls made so far: kind, document, state of the promise
  hHandler,   \* the call whose handler is the worker's onmessage (0: none)
  hInbox,     \* requests posted to the worker, not yet handled by it
  hOutbox     \* results posted by the worker, not yet delivered

mockVars == <<schemas, stack, sets, result, mockPc, calls>>

convVars == <<cDocs, cFallback, cFaker, cOut, heap>>

impVars == <<fileContents, hasWindow, worker, pc, idx, docArr, resultDoc,
             derefDoc, outcome, inbox, outbox, onmessage, posted,
             validateCalls, derefCalls, convertCalls, validFail, derefFail>>

numVars == <<numSchema, numOut>>

hostVars == <<hCalls, hHandler, hInbox, hOutbox>>

vars == <<schemas, stack, sets, result, mockPc, calls, cDocs, cFallback, cFaker, cOut,
          heap,
          fileContents, hasWindow, worker, pc, idx, docArr, resultDoc,
          derefDoc, outcome, inbox, outbox, onmessage, posted,
          validateCalls, derefCalls, convertCalls, validFail, derefFail,
          numSchema, numOut, hCalls, hHandler, hInbox, hOutbox>>

(***************************************************************************)
(* Small helpers.                                                           *)
(***************************************************************************)
RECURSIVE Pow(_, _)
Pow(b, e) == IF e = 0 THEN 1 ELSE b * Pow(b, e - 1)

RECURSIVE SumPow(_, _)
SumPow(b, d) == IF d = 0 THEN 1 ELSE Pow(b, d) + SumPow(b, d - 1)

Max2(a, b) == IF a >= b THEN a ELSE b

SeqsUpTo(S, n) == UNION {[1..k -> S] : k \in 0..n}

(***************************************************************************)
(* Schema graphs.  Node 0 stands for `undefined` (an absent schema);       *)
(* nodes 1..NumNodes are schema objects, referenced by identity, so a       *)
(* node may be its own descendant.  minItems = -1 stands for "absent".      *)
(***************************************************************************)
Undefined == 0
NodeIds == 1..NumNodes
NoMinItems == -1
NoMaxItems == -1

Leaf(type) ==
  [type |-> type, items |-> Undefined, minItems |-> NoMinItems,
   maxItems |-> NoMaxItems,
   hasProperties |-> FALSE, properties |-> <<>>,
   hasAllOf |-> FALSE, allOf |-> <<>>,
   hasAlt |-> FALSE, alt |-> <<>>]

ArraySchema(items, minItems) ==
  [Leaf("array") EXCEPT !.items = items, !.minItems = minItems]

\* an object schema; type may be "object" or "none" (implicit object)
ObjectSchema(type, props) ==
  [Leaf(type) EXCEPT !.hasProperties = TRUE, !.properties = props]

AllOfSchema(members) ==
  [Leaf("none") EXCEPT !.hasAllOf = TRUE, !.allOf = members]

\* oneOf and anyOf are read through the same expression, oneOf || anyOf
AltSchema(members) ==
  [Leaf("none") EXCEPT !.hasAlt = TRUE, !.alt = members]

SchemaObjects ==
  {Leaf("string"), Leaf("integer"), Leaf("none"), ArraySchema(Undefined, NoMinItems)}
    \cup {ArraySchema(it, mi) : it \in NodeIds,
                                mi \in {NoMinItems} \cup 0..MaxMinItems}
    \cup {ObjectSchema("object", ps) : ps \in SeqsUpTo(NodeIds, MaxKids)}
    \cup {AllOfSchema(ms) : ms \in SeqsUpTo(NodeIds, MaxKids)}
    \cup {AltSchema(ms) : ms \in SeqsUpTo(NodeIds, MaxKids)}

\* references to schema nodes held by one schema object
Refs(s) ==
  (IF s.items = Undefined THEN 0 ELSE 1)
    + Len(s.properties) + Len(s.allOf) + Len(s.alt)

RECURSIVE TotalRefs(_, _)
TotalRefs(graph, n) ==
  IF n = 0 THEN 0 ELSE Refs(graph[n]) + TotalRefs(graph, n - 1)

SchemaGraphs ==
  {graph \in [NodeIds -> SchemaObjects] : TotalRefs(graph, NumNodes) <= MaxRefs}

(***************************************************************************)
(* Synthesized values.  kids is the ordered list of <<key, value>> own     *)
(* entries: key j > 0 is the j-th declared property name, key -i <= 0 is   *)
(* array (or string character) index i.                                     *)
(***************************************************************************)
Val(t, kids) == [t |-> t, kids |-> kids]
NullVal == Val("null", <<>>)
EmptyObj == Val("obj", <<>>)
WordVal == Val("word", <<>>)
NumVal == Val("num", <<>>)
BoolVal == Val("bool", <<>>)
DataUriVal == Val("datauri", <<>>)
CharVal == Val("char", <<>>)

\* own enumerable entries of a value, as Object.assign reads them
OwnEntries(v) ==
  IF v.t \in {"obj", "arr"} THEN v.kids
  ELSE IF v.t \in {"word", "datauri"} THEN << <<0, CharVal>> >>
  ELSE <<>>

HasKey(entries, k) == \E j \in 1..Len(entries) : entries[j][1] = k

SetKey(entries, k, v) ==
  IF HasKey(entries, k)
    THEN [j \in 1..Len(entries) |->
            IF entries[j][1] = k THEN <<k, v>> ELSE entries[j]]
    ELSE Append(entries, <<k, v>>)

RECURSIVE AssignEntries(_, _)
AssignEntries(target, src) ==
  IF src = <<>> THEN target
  ELSE AssignEntries(SetKey(target, src[1][1], src[1][2]), Tail(src))

\* Object.assign(merged, generated)
ObjectAssign(merged, generated) == AssignEntries(merged, OwnEntries(generated))

(***************************************************************************)
(* generateMockFromSchema as a stack machine.  A frame is one activation.   *)
(***************************************************************************)
Frame(node, vs) ==
  [node |-> node, vs |-> vs, phase |-> "enter", kind |-> "none",
   kids |-> <<>>, i |-> 0, acc |-> <<>>, val |-> NullVal]

Top == stack[Len(stack)]

SetTop(f) == [stack EXCEPT ![Len(stack)] = f]

\* a generator whose cycle guard never fires
GuardHitNever(f) == FALSE

\* the entry of an activation that found its schema already in visited
GuardHit(f) == f.node \in sets[f.vs]

\* array elements synthesized on the array's own visited set
ElementGetsCopyNever(f) == FALSE

\* new Set(visited): the call for an array element gets a copy
ElementGetsCopy(f) == f.kind = "arr"

\* the length of an array that has no minItems
DefaultCount == 1

\* a count that never exceeds a declared maxItems
ArrayCountCapped(s) ==
  LET count == IF s.minItems = NoMinItems THEN DefaultCount ELSE s.minItems IN
  IF s.maxItems # NoMaxItems /\ s.maxItems < count THEN s.maxItems ELSE count

\* const count = schema.minItems ?? 1
ArrayCount(s) == IF s.minItems = NoMinItems THEN DefaultCount ELSE s.minItems

\* visited.has(schema) ... return {}; visited.add(schema); dispatch on type
EnterFrame(f) ==
  IF GuardHit(f) THEN [f EXCEPT !.phase = "ret", !.val = EmptyObj]
  ELSE IF f.node = Undefined THEN [f EXCEPT !.phase = "ret", !.val = NullVal]
  ELSE LET s == schemas[f.node] IN
    IF s.type = "file" THEN [f EXCEPT !.phase = "ret", !.val = DataUriVal]
    ELSE IF s.type = "string" THEN [f EXCEPT !.phase = "ret", !.val = WordVal]
    ELSE IF s.type \in {"integer", "number"}
      THEN [f EXCEPT !.phase = "ret", !.val = NumVal]
    ELSE IF s.type = "boolean" THEN [f EXCEPT !.phase = "ret", !.val = BoolVal]
    ELSE IF s.type = "array" /\ s.items # Undefined
      THEN [f EXCEPT !.phase = "loop", !.kind = "arr",
                     !.kids = [j \in 1..ArrayCount(s) |-> s.items]]
    ELSE IF s.type = "object" \/ s.hasProperties
      THEN [f EXCEPT !.phase = "loop", !.kind = "obj", !.kids = s.properties]
    ELSE IF s.hasAllOf
      THEN [f EXCEPT !.phase = "loop", !.kind = "allOf", !.kids = s.allOf]
    ELSE IF s.hasAlt
      THEN [f EXCEPT !.phase = "loop", !.kind = "alt",
                     !.kids = << IF s.alt = <<>> THEN Undefined ELSE s.alt[1] >>]
    ELSE [f EXCEPT !.phase = "ret", !.val = NullVal]

\* the visited set an activation leaves behind at its entry
EnterVisited(f) ==
  IF GuardHit(f) THEN sets
  ELSE [sets EXCEPT ![f.vs] = @ \cup {f.node}]

\* the value an activation returns once its loop is over
FrameValue(f) ==
  IF f.phase = "ret" THEN f.val
  ELSE IF f.kind = "arr" THEN Val("arr", f.acc)
  ELSE IF f.kind = "alt" THEN f.acc[1][2]
  ELSE Val("obj", f.acc)

\* what the caller does with the value of the call it just made
Receive(f, v) ==
  IF f.kind = "arr" THEN [f EXCEPT !.acc = Append(@, <<-Len(@), v>>)]
  ELSE IF f.kind = "obj" THEN [f EXCEPT !.acc = SetKey(@, f.i, v)]
  ELSE IF f.kind = "allOf" THEN [f EXCEPT !.acc = ObjectAssign(@, v)]
  ELSE [f EXCEPT !.acc = << <<0, v>> >>]

\* cap that keeps a runaway recursion finite in the model
CallCap == SumPow(Max2(1, Max2(MaxKids, MaxMinItems)), NumNodes) + 2

MockIdle ==
  /\ schemas = <<>>
  /\ stack = <<>>
  /\ sets = <<>>
  /\ result = NullVal
  /\ mockPc = "idle"
  /\ calls = 0

ConvIdle ==
  /\ cDocs = <<>>
  /\ cFallback = <<>>
  /\ cFaker = <<>>
  /\ cOut = [tag |-> "pending"]
  /\ heap = <<>>

ImpIdle ==
  /\ fileContents = <<>>
  /\ hasWindow = FALSE
  /\ worker = "null"
  /\ pc = "idle"
  /\ idx = 0
  /\ docArr = <<>>
  /\ resultDoc = <<>>
  /\ derefDoc = <<>>
  /\ outcome = [tag |-> "pending"]
  /\ inbox = <<>>
  /\ outbox = <<>>
  /\ onmessage = "none"
  /\ posted = <<>>
  /\ validateCalls = <<>>
  /\ derefCalls = <<>>
  /\ convertCalls = <<>>
  /\ validFail = {}
  /\ derefFail = {}

NumIdle ==
  /\ numSchema = <<>>
  /\ numOut = [tag |-> "pending"]

HostIdle ==
  /\ hCalls = <<>>
  /\ hHandler = 0
  /\ hInbox = <<>>
  /\ hOutbox = <<>>

InitMock ==
  /\ ConvIdle
  /\ ImpIdle
  /\ NumIdle
  /\ HostIdle
  /\ schemas \in SchemaGraphs
  /\ stack = << Frame(1, 1) >>
  /\ sets = << {} >>
  /\ result = NullVal
  /\ mockPc = "run"
  /\ calls = 0

\* entry of the newest activation: cycle guard, then dispatch
MockEnter ==
  /\ mockPc = "run"
  /\ Top.phase = "enter"
  /\ calls < CallCap
  /\ calls' = calls + 1
  /\ sets' = EnterVisited(Top)
  /\ stack' = SetTop(EnterFrame(Top))
  /\ UNCHANGED <<schemas, result, mockPc, convVars, impVars, numVars, hostVars>>

\* the loop of an array / object / allOf / oneOf activation makes its next call
MockCall ==
  /\ mockPc = "run"
  /\ Top.phase = "loop"
  /\ Top.i < Len(Top.kids)
  /\ LET f == Top
         child == f.kids[f.i + 1]
         fresh == ElementGetsCopy(f)
     IN /\ sets' = IF fresh THEN Append(sets, sets[f.vs]) ELSE sets
        /\ stack' = Append(SetTop([f EXCEPT !.i = @ + 1]),
                           Frame(child, IF fresh THEN Len(sets) + 1 ELSE f.vs))
  /\ UNCHANGED <<schemas, result, mockPc, calls, convVars, impVars, numVars, hostVars>>

\* an activation returns its value to its caller
MockReturn ==
  /\ mockPc = "run"
  /\ \/ Top.phase = "ret"
     \/ Top.phase = "loop" /\ Top.i = Len(Top.kids)
  /\ LET v == FrameValue(Top)
         rest == SubSeq(stack, 1, Len(stack) - 1)
     IN IF rest = <<>>
          THEN /\ stack' = <<>>
               /\ result' = v
               /\ mockPc' = "done"
          ELSE /\ stack' = [rest EXCEPT ![Len(rest)] = Receive(@, v)]
               /\ UNCHANGED <<result, mockPc>>
  /\ UNCHANGED <<schemas, sets, calls, convVars, impVars, numVars, hostVars>>

NextMock == MockEnter \/ MockCall \/ MockReturn

SpecMock == InitMock /\ [][NextMock]_vars

(***************************************************************************)
(* generateMockFromSchema called on an array schema that has items, with   *)
(* minItems and maxItems each declared or not.                              *)
(***************************************************************************)
ItemCounts == {NoMinItems} \cup 0..MaxMinItems

\* the schema the call is made on
RootArrays ==
  {[ArraySchema(it, mi) EXCEPT !.maxItems = ma] :
     it \in NodeIds, mi \in ItemCounts, ma \in ItemCounts}

\* the schemas below it: leaves, an array of the root, an object of the root
InnerSchemas ==
  {Leaf("string"), Leaf("integer"), ArraySchema(1, NoMinItems),
   ObjectSchema("object", <<1>>)}

ArrayGraphs ==
  {graph \in [NodeIds -> RootArrays \cup InnerSchemas] :
     /\ graph[1] \in RootArrays
     /\ \A n \in NodeIds \ {1} : graph[n] \in InnerSchemas}

InitArray ==
  /\ ConvIdle
  /\ ImpIdle
  /\ NumIdle
  /\ HostIdle
  /\ schemas \in ArrayGraphs
  /\ stack = << Frame(1, 1) >>
  /\ sets = << {} >>
  /\ result = NullVal
  /\ mockPc = "run"
  /\ calls = 0

SpecArray == InitArray /\ [][NextMock]_vars

(***************************************************************************)
(* The integer / number branch of generateMockFromSchema on its own, with  *)
(* the magnitudes.  A number is held in units of 10^-fractionDigits, so an *)
(* integer n is n * Unit.                                                  *)
(***************************************************************************)
\* schema.minimum ?? 1
DefaultMinimum == 1
\* schema.maximum ?? 100
DefaultMaximum == 100
\* faker.number.float({ ..., fractionDigits: 2 })
fractionDigits == 2

Unit == Pow(10, fractionDigits)

\* a numeric schema, by the members the branch reads
NumericSchema(type, hasMinimum, minimum, hasMaximum, maximum) ==
  [type |-> type, hasMinimum |-> hasMinimum, minimum |-> minimum,
   hasMaximum |-> hasMaximum, maximum |-> maximum]

\* const min = schema.minimum ?? 1; const max = schema.maximum ?? 100
NumericRange(schema) ==
  [min |-> IF schema.hasMinimum THEN schema.minimum ELSE DefaultMinimum,
   max |-> IF schema.hasMaximum THEN schema.maximum ELSE DefaultMaximum]

\* faker.number.int({ min, max }): an integer of [min, max], or a FakerError
\* when max < min
fakerNumberInt(min, max) ==
  IF max < min THEN {[tag |-> "thrown"]}
  ELSE {[tag |-> "value", v |-> n * Unit] : n \in min..max}

\* faker.number.float({ min, max, fractionDigits }): a multiple of
\* 10^-fractionDigits of [min, max], or a FakerError when max < min
fakerNumberFloat(min, max) ==
  IF max < min THEN {[tag |-> "thrown"]}
  ELSE {[tag |-> "value", v |-> n] : n \in (min * Unit)..(max * Unit)}

\* the outcomes of the branch on a schema of type integer or number
NumberBranchOutcomes(schema) ==
  LET r == NumericRange(schema) IN
  IF schema.type = "integer" THEN fakerNumberInt(r.min, r.max)
  ELSE fakerNumberFloat(r.min, r.max)

\* integer bounds a schema may declare
DeclaredBounds == {0, 1, 7, 100, 200}

NumericSchemas ==
  {NumericSchema(t, FALSE, 0, FALSE, 0) : t \in {"integer", "number"}}
    \cup {NumericSchema(t, TRUE, lo, FALSE, 0) :
            t \in {"integer", "number"}, lo \in DeclaredBounds}
    \cup {NumericSchema(t, FALSE, 0, TRUE, hi) :
            t \in {"integer", "number"}, hi \in DeclaredBounds}
    \cup {NumericSchema(t, TRUE, lo, TRUE, hi) :
            t \in {"integer", "number"}, lo \in DeclaredBounds,
            hi \in DeclaredBounds}

InitNum ==
  /\ MockIdle
  /\ ConvIdle
  /\ ImpIdle
  /\ HostIdle
  /\ numSchema \in NumericSchemas
  /\ numOut = [tag |-> "pending"]

NumberBranch ==
  /\ numOut.tag = "pending"
  /\ numOut' \in NumberBranchOutcomes(numSchema)
  /\ UNCHANGED <<numSchema, mockVars, convVars, impVars, hostVars>>

NextNum == NumberBranch

SpecNum == InitNum /\ [][NextNum]_vars


(***************************************************************************)
(* Documents.  A parsed document is modelled by the members the engine     *)
(* reads.  A member that carries a version marker records whether it is    *)
(* present and whether its value is a string.  src, validated and derefd   *)
(* record where a document came from and which adapters produced it.       *)
(* A URL or path string is the sequence of its tokens ("https", "://",     *)
(* "api", "/", "{", "id", "}", ...); an absent or empty string is <<>>.     *)
(***************************************************************************)
Marker(has, isString, val) == [has |-> has, isString |-> isString, val |-> val]
NoMarker == Marker(FALSE, FALSE, "")

\* a map of security schemes: absent, or its own entries <<name, scheme>>
Registry(has, entries) == [has |-> has, entries |-> entries]
NoRegistry == Registry(FALSE, <<>>)

\* servers, host, basePath, schemes, security and the two scheme registries
\* are absent unless a document is built with them (see WithUrl, WithSecurity)
MkDoc(hasPaths, paths, swagger, openapi, hasInfo, title) ==
  [isObject |-> TRUE, hasPaths |-> hasPaths, paths |-> paths,
   swagger |-> swagger, openapi |-> openapi,
   hasInfo |-> hasInfo, title |-> title,
   hasServers |-> FALSE, servers |-> <<>>,
   host |-> <<>>, basePath |-> <<>>, schemes |-> <<>>,
   hasSecurity |-> FALSE, security |-> <<>>,
   securitySchemes |-> NoRegistry, securityDefinitions |-> NoRegistry,
   src |-> 0, validated |-> FALSE, derefd |-> FALSE]

\* a parsed value that is not an object (a YAML scalar, JSON null, a number)
ScalarDoc ==
  [MkDoc(FALSE, <<>>, NoMarker, NoMarker, FALSE, "") EXCEPT !.isObject = FALSE]

\* objectHasProperty(obj, propName), for the members the engine asks about
objectHasProperty(obj, propName) ==
  /\ obj.isObject
  /\ CASE propName = "paths" -> obj.hasPaths
       [] propName = "info" -> obj.hasInfo
       [] propName = "swagger" -> obj.swagger.has
       [] propName = "openapi" -> obj.openapi.has
       [] propName = "servers" -> obj.hasServers
       [] OTHER -> FALSE

isOpenAPIV2Document(doc) ==
  objectHasProperty(doc, "swagger") /\ doc.swagger.isString

isOpenAPIV3Document(doc) ==
  objectHasProperty(doc, "openapi") /\ doc.openapi.isString

\* version strings that start with "3."
OpenApi3Versions == {"3.0.0", "3.0.3", "3.1.0"}

\* doc.openapi.startsWith("3.")
startsWith3(val) == val \in OpenApi3Versions

\* the op argument is not read
isOpenAPIV3Operation(doc, op) ==
  /\ objectHasProperty(doc, "openapi")
  /\ doc.openapi.isString
  /\ startsWith3(doc.openapi.val)

(***************************************************************************)
(* String operations on token sequences.                                    *)
(***************************************************************************)
\* str.startsWith("/")
StartsWithSlash(str) == str # <<>> /\ str[1] = "/"

\* str.endsWith("/")
EndsWithSlash(str) == str # <<>> /\ str[Len(str)] = "/"

\* str.startsWith("http")
StartsWithHttp(str) == str # <<>> /\ str[1] \in {"http", "https"}

\* str.replace(/\/$/, "")
StripTrailingSlash(str) ==
  IF EndsWithSlash(str) THEN SubSeq(str, 1, Len(str) - 1) ELSE str

\* str.trim(): white space is the token " "
RECURSIVE TrimStart(_)
TrimStart(str) ==
  IF str # <<>> /\ str[1] = " " THEN TrimStart(Tail(str)) ELSE str

RECURSIVE TrimEnd(_)
TrimEnd(str) ==
  IF str # <<>> /\ str[Len(str)] = " "
    THEN TrimEnd(SubSeq(str, 1, Len(str) - 1)) ELSE str

Trim(str) == TrimEnd(TrimStart(str))

\* flow(S.replace(/{/g, "<<"), S.replace(/}/g, ">>"))
replaceOpenApiPathTemplating(str) ==
  [j \in 1..Len(str) |->
     IF str[j] = "{" THEN "<<" ELSE IF str[j] = "}" THEN ">>" ELSE str[j]]

\* the placeholder "<<baseUrl>>"
BaseUrlPlaceholder == <<"<<", "baseUrl", ">>">>

\* a || b on strings: the empty string is falsy
OrElse(a, b) == IF a # <<>> THEN a ELSE b

(***************************************************************************)
(* extractBaseUrl and parseOpenAPIUrl.  A server is modelled by its url.    *)
(***************************************************************************)
extractBaseUrl(spec, fallbackBaseUrl) ==
  IF spec.hasServers /\ Len(spec.servers) > 0
    THEN LET serverUrl == spec.servers[1] IN
         IF StartsWithSlash(serverUrl) /\ fallbackBaseUrl # <<>>
           THEN fallbackBaseUrl \o serverUrl
         ELSE IF ~StartsWithHttp(serverUrl) /\ fallbackBaseUrl # <<>>
           THEN fallbackBaseUrl
         ELSE StripTrailingSlash(serverUrl)
  ELSE IF spec.host # <<>>
    THEN LET protocol == IF \E j \in 1..Len(spec.schemes) : spec.schemes[j] = "https"
                           THEN "https"
                         ELSE IF spec.schemes # <<>> THEN spec.schemes[1]
                         ELSE "https"
         IN StripTrailingSlash(<<protocol, "://">> \o spec.host \o spec.basePath)
  ELSE fallbackBaseUrl

\* rule records which branch built the url: "v2" reads host and basePath,
\* "v3" reads servers, "none" reads no member of the document
parseOpenAPIUrl(doc) ==
  IF objectHasProperty(doc, "swagger")
    THEN [url |-> OrElse(Trim(doc.host), BaseUrlPlaceholder) \o Trim(doc.basePath),
          rule |-> "v2"]
  ELSE IF objectHasProperty(doc, "servers")
    THEN LET serverUrl == IF doc.servers = <<>> THEN <<>> ELSE doc.servers[1] IN
         [url |-> IF serverUrl = <<>> \/ serverUrl = <<".", "/">>
                    THEN BaseUrlPlaceholder ELSE serverUrl,
          rule |-> "v3"]
  ELSE [url |-> BaseUrlPlaceholder, rule |-> "none"]

(***************************************************************************)
(* parseOpenAPIAuth.  A security requirement is the list of the scheme     *)
(* names it has as keys.  A scheme is modelled by the members the mapper   *)
(* reads; an absent string member is "".                                    *)
(***************************************************************************)
\* members every plain object inherits from Object.prototype; requestsByTags
\* and the scheme maps are plain objects, so obj[key] finds them
ObjectPrototypeKeys == {"constructor", "toString", "valueOf", "hasOwnProperty"}

\* an OAuth2 flow object (of `flows`), or the members a scheme itself lends
\* to the Swagger 2 form { [scheme.flow]: scheme }
FlowObj(authorizationUrl, tokenUrl) ==
  [authorizationUrl |-> authorizationUrl, tokenUrl |-> tokenUrl]

Scheme(type, scheme) ==
  [type |-> type, scheme |-> scheme, name |-> "", in |-> "",
   hasFlows |-> FALSE, flows |-> <<>>, flow |-> "undefined",
   authorizationUrl |-> "", tokenUrl |-> ""]

\* what schemes[name] finds on an inherited member of Object.prototype: a
\* truthy value without type
PrototypeMember == Scheme("undefined", "undefined")

\* schemes[schemeName] on a plain object
Lookup(entries, schemeName) ==
  IF \E j \in 1..Len(entries) : entries[j][1] = schemeName
    THEN [found |-> TRUE,
          scheme |-> entries[CHOOSE j \in 1..Len(entries) :
                               entries[j][1] = schemeName][2]]
  ELSE IF schemeName \in ObjectPrototypeKeys
    THEN [found |-> TRUE, scheme |-> PrototypeMember]
  ELSE [found |-> FALSE, scheme |-> PrototypeMember]

\* the auth object returned; registry records which map the scheme name was
\* looked up in ("none": no lookup was made)
Auth(authType, registry) ==
  [authType |-> authType, registry |-> registry, key |-> "", addTo |-> "",
   grantType |-> "", authUrl |-> ""]

\* grantTypeMap[flowType] || "AUTHORIZATION_CODE"; grantTypeMap is a plain
\* object, so a flow named like a member of Object.prototype finds that
\* member, a function
grantTypeMap(flowType) ==
  CASE flowType = "implicit" -> "IMPLICIT"
    [] flowType = "password" -> "PASSWORD"
    [] flowType \in {"application", "clientCredentials"} -> "CLIENT_CREDENTIALS"
    [] flowType \in {"accessCode", "authorizationCode"} -> "AUTHORIZATION_CODE"
    [] flowType \in ObjectPrototypeKeys -> "Function"
    [] OTHER -> "AUTHORIZATION_CODE"

\* op.security || doc.security, with an empty list taken for none declared
EffectiveSecurityNonEmpty(doc, op) ==
  IF op.hasSecurity /\ op.security # <<>>
    THEN [has |-> TRUE, list |-> op.security]
  ELSE [has |-> doc.hasSecurity, list |-> doc.security]

\* op.security ?? doc.security
EffectiveSecurity(doc, op) ==
  IF op.hasSecurity THEN [has |-> TRUE, list |-> op.security]
  ELSE [has |-> doc.hasSecurity, list |-> doc.security]

\* components?.securitySchemes || securityDefinitions || {}
SchemeRegistry(doc) ==
  IF doc.securitySchemes.has
    THEN [entries |-> doc.securitySchemes.entries, registry |-> "components"]
  ELSE IF doc.securityDefinitions.has
    THEN [entries |-> doc.securityDefinitions.entries,
          registry |-> "securityDefinitions"]
  ELSE [entries |-> <<>>, registry |-> "empty"]

\* a mapper that takes a scheme with apiKey members (`in`) for an API key
\* before it looks at the type
MapSchemeByMembers(scheme, registry) ==
  IF scheme.in # ""
    THEN [Auth("api-key", registry) EXCEPT
            !.key = IF scheme.name # "" THEN scheme.name ELSE "api_key",
            !.addTo = IF scheme.in = "query" THEN "QUERY_PARAMS" ELSE "HEADERS"]
  ELSE IF scheme.type = "http" /\ scheme.scheme = "bearer"
    THEN Auth("bearer", registry)
  ELSE IF scheme.type = "http" /\ scheme.scheme = "basic"
    THEN Auth("basic", registry)
  ELSE Auth("none", registry)

\* step 4 of parseOpenAPIAuth: the checks on the resolved scheme, in order
MapScheme(scheme, registry) ==
  IF scheme.type = "http" /\ scheme.scheme = "bearer"
    THEN Auth("bearer", registry)
  ELSE IF scheme.type = "apiKey"
    THEN [Auth("api-key", registry) EXCEPT
            !.key = IF scheme.name # "" THEN scheme.name ELSE "api_key",
            !.addTo = IF scheme.in = "query" THEN "QUERY_PARAMS" ELSE "HEADERS"]
  ELSE IF scheme.type = "http" /\ scheme.scheme = "basic"
    THEN Auth("basic", registry)
  ELSE IF scheme.type = "oauth2"
    THEN IF scheme.hasFlows /\ scheme.flows = <<>>
           \* flows is {}: flowType and flowObj are undefined, and
           \* flowObj.authorizationUrl throws
           THEN Auth("TypeError", registry)
         ELSE LET flowType == IF scheme.hasFlows THEN scheme.flows[1][1]
                              ELSE scheme.flow
                  flowObj == IF scheme.hasFlows THEN scheme.flows[1][2]
                             ELSE FlowObj(scheme.authorizationUrl, scheme.tokenUrl)
              IN [Auth("oauth-2", registry) EXCEPT
                    !.addTo = "HEADERS",
                    !.grantType = grantTypeMap(flowType),
                    !.authUrl = IF flowObj.authorizationUrl # ""
                                  THEN flowObj.authorizationUrl ELSE "<<auth_url>>"]
  ELSE Auth("none", registry)

parseOpenAPIAuth(doc, op) ==
  LET security == EffectiveSecurity(doc, op) IN
  IF ~security.has \/ Len(security.list) = 0 THEN Auth("none", "none")
  ELSE LET securityRequirement == security.list[1]
           schemes == SchemeRegistry(doc)
       IN IF securityRequirement = <<>>
            \* Object.keys({})[0] is undefined; schemes[undefined] is too
            THEN Auth("none", schemes.registry)
          ELSE LET found == Lookup(schemes.entries, securityRequirement[1]) IN
            IF ~found.found THEN Auth("none", schemes.registry)
            ELSE MapScheme(found.scheme, schemes.registry)

(***************************************************************************)
(* convertPathToHoppReqs and convertOpenApiDocsToHopp.  Objects the        *)
(* converter creates get fresh identities (natural numbers): a request is  *)
(* one object plus one nested object per structured field.                 *)
(***************************************************************************)
Verbs == <<"get", "head", "post", "put", "delete", "options", "patch">>

\* method.toUpperCase()
ToUpperCase(method) ==
  CASE method = "get" -> "GET" [] method = "head" -> "HEAD"
    [] method = "post" -> "POST" [] method = "put" -> "PUT"
    [] method = "delete" -> "DELETE" [] method = "options" -> "OPTIONS"
    [] method = "patch" -> "PATCH"

\* an operation object, by the members the converter reads; the members
\* other than operationId and tags are absent unless set
Operation(tags) ==
  [operationId |-> "Op", tags |-> tags,
   hasSecurity |-> FALSE, security |-> <<>>,
   hasResponses |-> FALSE, responses |-> <<>>,
   requestBody |-> "none", bodyParam |-> FALSE, bodySchema |-> "absent"]

\* a key of `responses` with what parseFloat(key) and Number(key) make of it
ResponseKey(text, parseFloatNaN, numberNaN, number) ==
  [text |-> text, parseFloatNaN |-> parseFloatNaN, numberNaN |-> numberNaN,
   number |-> number]

\* one entry of `responses`; description is absent unless hasDescription
Response(key, hasDescription, description) ==
  [key |-> key, hasDescription |-> hasDescription, description |-> description]

\* isNumericLocal(key): !isNaN(parseFloat(key)) && isFinite(key)
isNumericLocal(key) == ~key.parseFloatNaN /\ ~key.numberNaN

\* isNumericLocal(Number(key))
isNumericLocalOfNumber(key) == ~key.numberNaN

\* the code of a response whose key is not numeric
DefaultCode == 200

\* res[name] = stub on the plain object res: one stub per name
AssignStub(res, stub) == {r \in res : r.name # stub.name} \cup {stub}

\* a stub named by its key, whatever the description
StubNamedByKey(response, numeric, rule, originalRequest) ==
  [name |-> response.key.text,
   code |-> IF numeric THEN response.key.number ELSE DefaultCode,
   rule |-> rule, originalRequest |-> originalRequest]

\* one turn of the loop over Object.entries(responses)
Stub(response, numeric, rule, originalRequest) ==
  [name |-> IF response.hasDescription THEN response.description
            ELSE response.key.text,
   code |-> IF numeric THEN response.key.number ELSE DefaultCode,
   rule |-> rule, originalRequest |-> originalRequest]

RECURSIVE StubsOf(_, _, _, _)
StubsOf(res, entries, v3, originalRequest) ==
  IF entries = <<>> THEN res
  ELSE StubsOf(AssignStub(res,
                 Stub(entries[1],
                      IF v3 THEN isNumericLocal(entries[1].key)
                      ELSE isNumericLocalOfNumber(entries[1].key),
                      IF v3 THEN "v3" ELSE "v2", originalRequest)),
               Tail(entries), v3, originalRequest)

parseOpenAPIV3Responses(op, originalRequest) ==
  IF ~op.hasResponses THEN {}
  ELSE StubsOf({}, op.responses, TRUE, originalRequest)

parseOpenAPIV2Responses(op, originalRequest) ==
  IF ~op.hasResponses THEN {}
  ELSE StubsOf({}, op.responses, FALSE, originalRequest)

parseOpenAPIResponses(doc, op, originalRequest) ==
  IF isOpenAPIV3Operation(doc, op)
    THEN parseOpenAPIV3Responses(op, originalRequest)
    ELSE parseOpenAPIV2Responses(op, originalRequest)

\* the request body, by its content type, its payload and the rule that
\* extracted it: "v3" reads op.requestBody (the first content type of its
\* content, "none" when there is none), "v2" reads the `in: body` parameter;
\* bodySchema is the kind of schema found there
knownContentTypes ==
  {"application/json", "text/plain", "multipart/form-data",
   "application/x-www-form-urlencoded"}

\* generateMockFromSchema(schema), as a string: call tells which of the two
\* parseOpenAPIBody calls made for a request this is
MockBody(bodySchema, call) ==
  CASE bodySchema = "string" -> cFaker[call]
    [] bodySchema = "object" -> "{}"
    [] OTHER -> "null"

parseOpenAPIV3Body(doc, op, call) ==
  IF op.requestBody = "none" \/ op.requestBody \notin knownContentTypes
    THEN [contentType |-> "null", body |-> "null", rule |-> "v3"]
  ELSE IF op.requestBody \in {"multipart/form-data",
                              "application/x-www-form-urlencoded"}
    \* parseOpenAPIV3BodyFormData: one entry per property key, empty values
    THEN [contentType |-> op.requestBody, body |-> "keys", rule |-> "v3"]
  ELSE IF op.bodySchema # "absent"
    THEN [contentType |-> op.requestBody,
          body |-> MockBody(op.bodySchema, call), rule |-> "v3"]
  ELSE [contentType |-> op.requestBody, body |-> "", rule |-> "v3"]

parseOpenAPIV2Body(op, call) ==
  IF op.bodyParam /\ op.bodySchema # "absent"
    THEN [contentType |-> "application/json",
          body |-> MockBody(op.bodySchema, call), rule |-> "v2"]
  ELSE [contentType |-> "null", body |-> "null", rule |-> "v2"]

parseOpenAPIBody(doc, op, call) ==
  IF isOpenAPIV3Operation(doc, op) THEN parseOpenAPIV3Body(doc, op, call)
  ELSE parseOpenAPIV2Body(op, call)

\* the nested objects of a request, in creation order
RequestParts ==
  <<"params", "headers", "auth", "body", "requestVariables", "responses">>

\* the nested objects of the original-request snapshot, in creation order
SnapshotParts ==
  <<"auth", "body", "params", "headers", "requestVariables">>

\* objects making up one request: the request and its parts, then the
\* snapshot and its parts
ObjSize == Len(RequestParts) + 1 + Len(SnapshotParts) + 1

\* the objects base+1 .. base+Len(fields), one per field
PartIds(fields, base) ==
  [f \in {fields[j] : j \in 1..Len(fields)} |->
     base + CHOOSE j \in 1..Len(fields) : fields[j] = f]

\* the identity of the snapshot of the request whose objects start at base
SnapshotOid(base) == base + Len(RequestParts) + 2

\* a snapshot that keeps the live request's own objects
SnapshotPartIdsShared(base) ==
  [f \in {SnapshotParts[j] : j \in 1..Len(SnapshotParts)} |->
     PartIds(RequestParts, base + 1)[f]]

\* the arguments of makeHoppRESTResponseOriginalRequest: each is the result
\* of a call of its own (parseOpenAPIAuth, parseOpenAPIBody,
\* parseOpenAPIParams, parseOpenAPIHeaders, parseOpenAPIVariables)
SnapshotPartIds(base) == PartIds(SnapshotParts, SnapshotOid(base))

\* makeRESTRequest({...}): a request whose objects are base+1 .. base+ObjSize;
\* shape holds the values computed for it
RequestAt(shape, base) ==
  [name |-> shape.name, method |-> shape.method, path |-> shape.path,
   endpoint |-> shape.endpoint, urlRule |-> shape.urlRule,
   auth |-> shape.auth, body |-> shape.body,
   oid |-> base + 1,
   parts |-> PartIds(RequestParts, base + 1),
   snapshot |-> [oid |-> SnapshotOid(base), parts |-> SnapshotPartIds(base),
                 auth |-> shape.auth, body |-> shape.snapshotBody,
                 endpoint |-> shape.endpoint, method |-> shape.method],
   responses |-> {[r EXCEPT !.originalRequest = SnapshotOid(base)] :
                    r \in shape.responses}]

\* every object identity reachable from a snapshot
SnapshotObjects(request) ==
  {request.snapshot.oid}
    \cup {request.snapshot.parts[f] : f \in DOMAIN request.snapshot.parts}

\* every object identity reachable from a request
ObjectsOf(request) ==
  {request.oid} \cup {request.parts[f] : f \in DOMAIN request.parts}
    \cup SnapshotObjects(request)

\* the verbs of the fixed list that are present (truthy) on the path item
PresentVerbs(pathObj) == SelectSeq(Verbs, LAMBDA m : m \in DOMAIN pathObj)

\* the join of base url and path, without a doubled slash
Endpoint(openAPIUrl, openAPIPath) ==
  IF EndsWithSlash(openAPIUrl) /\ StartsWithSlash(openAPIPath)
    THEN openAPIUrl \o Tail(openAPIPath)
    ELSE openAPIUrl \o openAPIPath

convertPathToHoppReqs(doc, pathName, pathObj, base) ==
  LET ms == PresentVerbs(pathObj)
      openAPIUrl == parseOpenAPIUrl(doc)
      openAPIPath == replaceOpenApiPathTemplating(pathName)
  IN
  [j \in 1..Len(ms) |->
     LET info == pathObj[ms[j]] IN
     [request |-> RequestAt(
                    [name |-> info.operationId, method |-> ToUpperCase(ms[j]),
                     path |-> pathName,
                     endpoint |-> Endpoint(openAPIUrl.url, openAPIPath),
                     urlRule |-> openAPIUrl.rule,
                     auth |-> parseOpenAPIAuth(doc, info),
                     body |-> parseOpenAPIBody(doc, info, 1),
                     snapshotBody |-> parseOpenAPIBody(doc, info, 2),
                     responses |-> parseOpenAPIResponses(doc, info, 0)],
                    base + (j - 1) * ObjSize),
      metadata |-> [tags |-> info.tags]]]

\* Object.entries(doc.paths).map(convertPathToHoppReqs).flat()
RECURSIVE FlatPaths(_, _, _)
FlatPaths(doc, entries, base) ==
  IF entries = <<>> THEN <<>>
  ELSE LET reqs == convertPathToHoppReqs(doc, entries[1][1], entries[1][2], base)
       IN reqs \o FlatPaths(doc, Tail(entries), base + Len(reqs) * ObjSize)

\* lodash cloneDeep: every object of the copy is a fresh one, and the copy's
\* stubs share the copy's snapshot
cloneDeep(request, base) ==
  RequestAt([name |-> request.name, method |-> request.method,
             path |-> request.path, endpoint |-> request.endpoint,
             urlRule |-> request.urlRule,
             auth |-> request.auth, body |-> request.body,
             snapshotBody |-> request.snapshot.body,
             responses |-> request.responses], base)

FolderIndex(byTags, tag) ==
  IF \E j \in 1..Len(byTags) : byTags[j].name = tag
    THEN CHOOSE j \in 1..Len(byTags) : byTags[j].name = tag
    ELSE 0

\* one turn of `for (const tag of tags)`: acc is requestsByTags (own entries
\* in insertion order), the next free object identity and whether a
\* TypeError was thrown
PushByTag(acc, tag, request) ==
  IF acc.thrown THEN acc
  ELSE LET own == FolderIndex(acc.byTags, tag) IN
    IF own = 0 /\ tag \in ObjectPrototypeKeys
      \* !requestsByTags[tag] is false, and the inherited member has no push
      THEN [acc EXCEPT !.thrown = TRUE]
    ELSE LET withFolder == IF own = 0
                             THEN Append(acc.byTags, [name |-> tag, requests |-> <<>>])
                             ELSE acc.byTags
             at == IF own = 0 THEN Len(withFolder) ELSE own
         IN [acc EXCEPT
               !.byTags = [withFolder EXCEPT
                             ![at].requests = Append(@, cloneDeep(request, acc.next))],
               !.next = @ + ObjSize]

RECURSIVE PushByTags(_, _, _)
PushByTags(acc, tags, request) ==
  IF tags = <<>> THEN acc
  ELSE PushByTags(PushByTag(acc, tags[1], request), Tail(tags), request)

\* paths.forEach(({ metadata, request }) => ...)
RECURSIVE GroupByTags(_, _)
GroupByTags(acc, reqs) ==
  IF reqs = <<>> \/ acc.thrown THEN acc
  ELSE LET tags == reqs[1].metadata.tags IN
    GroupByTags(
      IF Len(tags) = 0
        THEN [acc EXCEPT !.withoutTags = Append(@, reqs[1].request)]
        ELSE PushByTags(acc, tags, reqs[1].request),
      Tail(reqs))

\* the body of docs.map: one collection, or a TypeError
\* (doc.info.title of a document without info, push on an inherited member)
ConvertDoc(doc, fallbackBaseUrl, base) ==
  IF ~objectHasProperty(doc, "info")
    THEN [thrown |-> TRUE, next |-> base, collection |-> <<>>]
  ELSE LET baseUrl == extractBaseUrl(doc, fallbackBaseUrl)
           reqs == FlatPaths(doc, doc.paths, base)
           acc == GroupByTags([byTags |-> <<>>, withoutTags |-> <<>>,
                               next |-> base + Len(reqs) * ObjSize,
                               thrown |-> FALSE], reqs)
       IN IF \E j \in 1..Len(reqs) : reqs[j].request.auth.authType = "TypeError"
            \* parseOpenAPIAuth threw inside convertPathToHoppReqs
            THEN [thrown |-> TRUE, next |-> base, collection |-> <<>>]
          ELSE [thrown |-> acc.thrown, next |-> acc.next,
                collection |-> [name |-> doc.title, src |-> doc.src,
                                baseUrl |-> baseUrl,
                                folders |-> acc.byTags,
                                requests |-> acc.withoutTags]]

RECURSIVE ConvertDocs(_, _, _)
ConvertDocs(docs, fallbackBaseUrl, base) ==
  IF docs = <<>> THEN [thrown |-> FALSE, next |-> base, collections |-> <<>>]
  ELSE LET first == ConvertDoc(docs[1], fallbackBaseUrl, base) IN
    IF first.thrown
      THEN [thrown |-> TRUE, next |-> first.next, collections |-> <<>>]
    ELSE LET rest == ConvertDocs(Tail(docs), fallbackBaseUrl, first.next) IN
      [thrown |-> rest.thrown, next |-> rest.next,
       collections |-> IF rest.thrown THEN <<>>
                       ELSE <<first.collection>> \o rest.collections]

\* convertOpenApiDocsToHopp(docs): TE.of(collections), unless docs.map threw
convertOpenApiDocsToHopp(docs, fallbackBaseUrl) ==
  LET r == ConvertDocs(docs, fallbackBaseUrl, 0) IN
  IF r.thrown THEN [tag |-> "thrown", error |-> "TypeError"]
  ELSE [tag |-> "right", collections |-> r.collections, objects |-> r.next]

(***************************************************************************)
(* The converter called on its own (as the CLI sync command does), and     *)
(* the host writing to an object of the output afterwards.                 *)
(***************************************************************************)
\* the path "/x"
PathX == <<"/", "x">>

\* tags an operation may declare
TagNames == {"A", "B", "constructor"}

Operations ==
  {Operation(ts) : ts \in SeqsUpTo(TagNames, MaxTags)}

\* path items holding operations under some of the first MaxOps verbs
PathItems ==
  UNION {[S -> Operations] : S \in SUBSET {Verbs[j] : j \in 1..MaxOps}}

ConvDocs ==
  {MkDoc(TRUE, << <<PathX, item>> >>, NoMarker, Marker(TRUE, TRUE, "3.0.0"),
         TRUE, "T") : item \in PathItems}

InitConv ==
  /\ MockIdle
  /\ ImpIdle
  /\ NumIdle
  /\ HostIdle
  /\ cDocs \in {<<d>> : d \in ConvDocs}
  /\ cFallback = <<>>
  /\ cFaker = <<>>
  /\ cOut = [tag |-> "pending"]
  /\ heap = <<>>

Convert ==
  /\ cOut.tag = "pending"
  /\ cOut' = convertOpenApiDocsToHopp(cDocs, cFallback)
  /\ heap' = IF cOut'.tag = "right" THEN [id \in 1..cOut'.objects |-> 0] ELSE <<>>
  /\ UNCHANGED <<cDocs, cFallback, cFaker, mockVars, impVars, numVars, hostVars>>

\* the host mutates one object of the output, once
Mutate ==
  /\ cOut.tag = "right"
  /\ \A id \in DOMAIN heap : heap[id] = 0
  /\ \E id \in DOMAIN heap : heap' = [heap EXCEPT ![id] = 1]
  /\ UNCHANGED <<cDocs, cFallback, cFaker, cOut, mockVars, impVars, numVars, hostVars>>

NextConv == Convert \/ Mutate

SpecConv == InitConv /\ [][NextConv]_vars

(***************************************************************************)
(* The converter on documents whose operations declare responses.           *)
(***************************************************************************)
Key200 == ResponseKey("200", FALSE, FALSE, 200)
Key404 == ResponseKey("404", FALSE, FALSE, 404)
KeyDefault == ResponseKey("default", TRUE, TRUE, 0)
Key2XX == ResponseKey("2XX", FALSE, TRUE, 0)

ResponseEntries ==
  {Response(k, FALSE, "") : k \in {Key200, Key404, KeyDefault, Key2XX}}
    \cup {Response(k, TRUE, d) : k \in {Key200, Key404, KeyDefault},
                                 d \in {"OK", "Not Found"}}

\* the entries of an object have different keys
ResponsesObjects ==
  {rs \in SeqsUpTo(ResponseEntries, MaxResponses) :
     \A i, j \in 1..Len(rs) : i # j => rs[i].key # rs[j].key}

StubOperations ==
  {Operation(<<>>)}
    \cup {[Operation(ts) EXCEPT !.hasResponses = TRUE, !.responses = rs] :
            ts \in {<<>>, <<"A">>}, rs \in ResponsesObjects}

StubDocs ==
  {MkDoc(TRUE, << <<PathX, [get |-> op]>> >>, sw, oa, TRUE, "T") :
     op \in StubOperations,
     sw \in {NoMarker}, oa \in {Marker(TRUE, TRUE, "3.0.0")}}
    \cup
  {MkDoc(TRUE, << <<PathX, [get |-> op]>> >>, sw, oa, TRUE, "T") :
     op \in StubOperations,
     sw \in {Marker(TRUE, TRUE, "2.0")}, oa \in {NoMarker}}

InitStub ==
  /\ MockIdle
  /\ ImpIdle
  /\ NumIdle
  /\ HostIdle
  /\ cDocs \in {<<d>> : d \in StubDocs}
  /\ cFallback = <<>>
  /\ cFaker = <<>>
  /\ cOut = [tag |-> "pending"]
  /\ heap = <<>>

SpecStub == InitStub /\ [][NextConv]_vars

(***************************************************************************)
(* The converter on documents of either dialect, of both and of neither,   *)
(* with and without a fallback base url.                                    *)
(***************************************************************************)
PathXId == <<"/", "x", "/", "{", "id", "}">>

HttpsApi == <<"https", "://", "api">>

\* the `servers` member: absent, empty, or one server with this url
ServersMembers ==
  {<<FALSE, <<>>>>, <<TRUE, <<>>>>} \cup
  {<<TRUE, <<url>>>> : url \in {HttpsApi, HttpsApi \o <<"/">>,
                               <<"/", "v1">>, <<".", "/">>}}

\* host, basePath and schemes of a Swagger 2 document
HostMembers ==
  {<<h, b, sc>> : h \in {<<>>, <<"api">>},
                  b \in {<<>>, <<"/", "v1">>},
                  sc \in {<<>>, <<"http">>}}

\* the scheme "s" registered in one registry or in both
RegistryPairs ==
  LET reg == Registry(TRUE, << <<"s", Scheme("http", "bearer")>> >>) IN
  {<<reg, NoRegistry>>, <<NoRegistry, reg>>, <<reg, reg>>}

\* GET with a request body in both dialects' styles, one response and a
\* required scheme
FullOperation ==
  [Operation(<<>>) EXCEPT
     !.hasSecurity = TRUE, !.security = << <<"s">> >>,
     !.hasResponses = TRUE, !.responses = <<Response(Key200, TRUE, "OK")>>,
     !.requestBody = "application/json", !.bodyParam = TRUE,
     !.bodySchema = "object"]

UrlDocs ==
  {[MkDoc(TRUE, << <<path, [get |-> FullOperation]>> >>, sw, oa, TRUE, "T")
      EXCEPT !.hasServers = sv[1], !.servers = sv[2],
             !.host = hm[1], !.basePath = hm[2], !.schemes = hm[3],
             !.securitySchemes = rp[1], !.securityDefinitions = rp[2]] :
     path \in {PathX, PathXId},
     sw \in {NoMarker, Marker(TRUE, TRUE, "2.0")},
     oa \in {NoMarker, Marker(TRUE, TRUE, "3.0.0"), Marker(TRUE, TRUE, "4.0.0")},
     sv \in ServersMembers, hm \in HostMembers, rp \in RegistryPairs}

InitUrl ==
  /\ MockIdle
  /\ ImpIdle
  /\ NumIdle
  /\ HostIdle
  /\ cDocs \in {<<d>> : d \in UrlDocs}
  /\ cFallback \in {<<>>, <<"https", "://", "sync">>}
  /\ cFaker = <<>>
  /\ cOut = [tag |-> "pending"]
  /\ heap = <<>>

SpecUrl == InitUrl /\ [][NextConv]_vars

(***************************************************************************)
(* The converter on documents whose operation has a request body.          *)
(***************************************************************************)
\* nouns faker may return
Nouns == {"apple", "pear"}

\* operations with a body: content type, `in: body` parameter and the kind
\* of schema found there; one declared response
BodyOperations ==
  {[Operation(ts) EXCEPT
      !.requestBody = ct, !.bodyParam = bp, !.bodySchema = sch,
      !.hasResponses = TRUE, !.responses = <<Response(Key200, TRUE, "OK")>>] :
     ts \in {<<>>, <<"A">>},
     ct \in {"none", "application/json", "multipart/form-data",
             "application/zip"},
     bp \in BOOLEAN,
     sch \in {"absent", "untyped", "object", "string"}}

BodyDocs ==
  {MkDoc(TRUE, << <<PathX, [post |-> op]>> >>, mk[1], mk[2], TRUE, "T") :
     op \in BodyOperations,
     mk \in {<<NoMarker, Marker(TRUE, TRUE, "3.0.0")>>,
             <<Marker(TRUE, TRUE, "2.0"), NoMarker>>}}

InitBody ==
  /\ MockIdle
  /\ ImpIdle
  /\ NumIdle
  /\ HostIdle
  /\ cDocs \in {<<d>> : d \in BodyDocs}
  /\ cFallback = <<>>
  /\ cFaker \in [1..2 -> Nouns]
  /\ cOut = [tag |-> "pending"]
  /\ heap = <<>>

SpecBody == InitBody /\ [][NextConv]_vars

(***************************************************************************)
(* The converter on documents that declare security.                        *)
(***************************************************************************)
ImplicitFlow == FlowObj("https://auth", "")

\* security scheme objects, with and without members of other scheme types
SchemeVariants ==
  {[Scheme(t, sc) EXCEPT !.name = n, !.in = i, !.hasFlows = fl[1],
                         !.flows = fl[2], !.flow = fw] :
     t \in {"http", "apiKey", "oauth2", "openIdConnect"},
     sc \in {"bearer", "basic", "undefined"},
     n \in {"", "X-Key"},
     i \in {"", "query", "header"},
     fl \in {<<FALSE, <<>>>>, <<TRUE, <<>>>>,
             <<TRUE, << <<"implicit", ImplicitFlow>> >> >>},
     fw \in {"undefined", "accessCode", "constructor"}}

\* a document with one operation, GET /x
OneOpDoc(swagger, openapi, op) ==
  MkDoc(TRUE, << <<PathX, [get |-> op]>> >>, swagger, openapi, TRUE, "T")

\* an operation that requires the scheme named s
Requiring(s) ==
  [Operation(<<>>) EXCEPT !.hasSecurity = TRUE, !.security = << <<s>> >>]

\* one scheme, named "s", in the registry of the document's dialect
SchemeDocs ==
  {[OneOpDoc(NoMarker, Marker(TRUE, TRUE, "3.0.0"), Requiring("s")) EXCEPT
      !.securitySchemes = Registry(TRUE, << <<"s", sch>> >>)] :
     sch \in SchemeVariants}
    \cup
  {[OneOpDoc(Marker(TRUE, TRUE, "2.0"), NoMarker, Requiring("s")) EXCEPT
      !.securityDefinitions = Registry(TRUE, << <<"s", sch>> >>)] :
     sch \in SchemeVariants}

BearerEntry == <<"b", Scheme("http", "bearer")>>
ApiKeyEntry == <<"k", Scheme("apiKey", "undefined")>>

\* a `security` member: absent, or a list of requirements
SecurityLists ==
  {<<FALSE, <<>>>>, <<TRUE, <<>>>>, <<TRUE, << <<"b">> >> >>,
   <<TRUE, << <<"k">> >> >>, <<TRUE, << <<"missing">> >> >>,
   <<TRUE, << <<"constructor">> >> >>, <<TRUE, << <<>> >> >>,
   <<TRUE, << <<"k">>, <<"b">> >> >>}

\* operation-level and document-level security against both registries
SecurityDocs ==
  {[OneOpDoc(NoMarker, Marker(TRUE, TRUE, "3.0.0"),
             [Operation(<<>>) EXCEPT !.hasSecurity = os[1], !.security = os[2]])
      EXCEPT !.hasSecurity = ds[1], !.security = ds[2],
             !.securitySchemes = comp, !.securityDefinitions = defs] :
     os \in SecurityLists, ds \in SecurityLists,
     comp \in {NoRegistry, Registry(TRUE, <<>>),
               Registry(TRUE, <<BearerEntry, ApiKeyEntry>>),
               Registry(TRUE, <<ApiKeyEntry>>)},
     defs \in {NoRegistry, Registry(TRUE, <<BearerEntry, ApiKeyEntry>>),
               Registry(TRUE, <<BearerEntry>>)}}

InitAuth ==
  /\ MockIdle
  /\ ImpIdle
  /\ NumIdle
  /\ HostIdle
  /\ cDocs \in {<<d>> : d \in SchemeDocs \cup SecurityDocs}
  /\ cFallback = <<>>
  /\ cFaker = <<>>
  /\ cOut = [tag |-> "pending"]
  /\ heap = <<>>

SpecAuth == InitAuth /\ [][NextConv]_vars

(***************************************************************************)
(* hoppOpenAPIImporter: Loader, Classifier, Validation Adapter,            *)
(* Dereference Adapter, conversion.                                         *)
(***************************************************************************)
OPENAPI_DEREF_ERROR == "openapi/deref_error"
IMPORTER_INVALID_FILE_FORMAT == "importer/invalid_file_format"

\* fp-ts Option
None == [some |-> FALSE, value |-> ScalarDoc]
Some(v) == [some |-> TRUE, value |-> v]

\* A file content is modelled by what the two parsers make of it.
JsonText(doc) == [json |-> Some(doc), yaml |-> Some(doc)]
YamlText(doc) == [json |-> None, yaml |-> Some(doc)]
Unparseable == [json |-> None, yaml |-> None]

safeParseJSON(str) == str.json
safeParseYAML(str) == str.yaml

parseOpenAPIDocContent(str) ==
  IF safeParseJSON(str).some THEN safeParseJSON(str) ELSE safeParseYAML(str)

\* a loader that skips the files it cannot parse
TraverseParseSkip(contents) ==
  LET ok == SelectSeq([i \in 1..Len(contents) |-> i],
                      LAMBDA i : parseOpenAPIDocContent(contents[i]).some)
  IN [some |-> TRUE,
      value |-> [k \in 1..Len(ok) |->
                   [parseOpenAPIDocContent(contents[ok[k]]).value EXCEPT !.src = ok[k]]]]

\* A.traverse(O.Applicative)(parseOpenAPIDocContent): all, or none
TraverseParse(contents) ==
  IF \A i \in 1..Len(contents) : parseOpenAPIDocContent(contents[i]).some
    THEN [some |-> TRUE,
          value |-> [i \in 1..Len(contents) |->
                       [parseOpenAPIDocContent(contents[i]).value EXCEPT !.src = i]]]
    ELSE [some |-> FALSE, value |-> <<>>]

\* a classifier that asks for the version marker or info only
isValidOpenAPISpecNoPaths(docObj) ==
  isOpenAPIV2Document(docObj) \/ isOpenAPIV3Document(docObj)
    \/ objectHasProperty(docObj, "info")

isValidOpenAPISpec(docObj) ==
  /\ objectHasProperty(docObj, "paths")
  /\ \/ isOpenAPIV2Document(docObj)
     \/ isOpenAPIV3Document(docObj)
     \/ objectHasProperty(docObj, "info")

\* What a catch block does with the loop's document: the entries it pushes
\* on resultDoc and whether an exception leaves the block.
Caught(push, escaped) == [push |-> push, escaped |-> escaped]

\* an outer catch that pushes nothing
OuterCatchDrop(docObj) == Caught(<<>>, FALSE)

\* catch (err) { resultDoc.push(docObj) } of the validation stage
OuterCatch(docObj) == Caught(<<docObj>>, FALSE)

\* an inner catch that drops the document
ValidationCatchDrop(docObj) == Caught(<<>>, FALSE)

\* catch (validationError) of the validation stage
ValidationCatch(docObj) ==
  IF objectHasProperty(docObj, "paths") THEN Caught(<<docObj>>, FALSE)
  ELSE OuterCatch(docObj)

\* a dereference catch that rethrows
DerefCatchRethrow(docObj) == Caught(<<>>, TRUE)

\* catch (error) of the dereference stage
DerefCatch(docObj) == Caught(<<docObj>>, FALSE)

\* getWorker(): the handle after the call
getWorker == IF hasWindow /\ worker = "null" THEN "created" ELSE worker

\* the stage a loop over docs starts in, or the one after it when docs is empty
LoopEntry(stage, after, docs) == IF docs = <<>> THEN after ELSE stage

Left(e) == [tag |-> "left", error |-> e]

\* documents the loader can meet
DocV3 ==
  MkDoc(TRUE, << <<PathX, [get |-> Operation(<<"A">>)]>> >>,
        NoMarker, Marker(TRUE, TRUE, "3.0.0"), TRUE, "A")
DocV2 == MkDoc(TRUE, <<>>, Marker(TRUE, TRUE, "2.0"), NoMarker, TRUE, "B")
DocInfoOnly == MkDoc(TRUE, <<>>, NoMarker, NoMarker, TRUE, "C")
DocPathsOnly == MkDoc(TRUE, <<>>, NoMarker, NoMarker, FALSE, "")
DocNoPaths == MkDoc(FALSE, <<>>, NoMarker, Marker(TRUE, TRUE, "3.0.0"), TRUE, "D")
DocV3NoInfo == MkDoc(TRUE, <<>>, NoMarker, Marker(TRUE, TRUE, "3.0.0"), FALSE, "")
DocNumericSwagger == MkDoc(TRUE, <<>>, Marker(TRUE, FALSE, ""), NoMarker, FALSE, "")

ImportDocs ==
  {DocV3, DocV2, DocInfoOnly, DocPathsOnly, DocNoPaths, DocV3NoInfo,
   DocNumericSwagger}

Files ==
  {JsonText(d) : d \in ImportDocs}
    \cup {YamlText(DocV3), YamlText(ScalarDoc), Unparseable}

InitImport ==
  /\ MockIdle
  /\ ConvIdle
  /\ NumIdle
  /\ HostIdle
  /\ fileContents \in SeqsUpTo(Files, MaxFiles)
  /\ hasWindow \in BOOLEAN
  /\ worker = "null"
  /\ pc = "start"
  /\ idx = 0
  /\ docArr = <<>>
  /\ resultDoc = <<>>
  /\ derefDoc = <<>>
  /\ outcome = [tag |-> "pending"]
  /\ inbox = <<>>
  /\ outbox = <<>>
  /\ onmessage = "none"
  /\ posted = <<>>
  /\ validateCalls = <<>>
  /\ derefCalls = <<>>
  /\ convertCalls = <<>>
  /\ validFail = {}
  /\ derefFail = {}

\* the loader: parse every file, or fail the batch
ImporterStart ==
  /\ pc = "start"
  /\ LET parsed == TraverseParse(fileContents) IN
     IF parsed.some
       THEN /\ docArr' = parsed.value
            /\ pc' = LoopEntry("validate", LoopEntry("deref", "convert", <<>>),
                               parsed.value)
            /\ idx' = 1
            /\ UNCHANGED outcome
       ELSE /\ outcome' = Left(IMPORTER_INVALID_FILE_FORMAT)
            /\ pc' = "done"
            /\ UNCHANGED <<docArr, idx>>
  /\ UNCHANGED <<fileContents, hasWindow, worker, resultDoc, derefDoc, inbox,
                 outbox, onmessage, posted, validateCalls, derefCalls,
                 convertCalls, validFail, derefFail, mockVars, convVars, numVars, hostVars>>

\* the validation stage took what one loop turn produced
ValidationTurnDone(c) ==
  IF c.escaped
    THEN /\ outcome' = Left(IMPORTER_INVALID_FILE_FORMAT)
         /\ pc' = "done"
         /\ UNCHANGED <<resultDoc, idx>>
    ELSE /\ resultDoc' = resultDoc \o c.push
         /\ IF idx = Len(docArr)
              THEN /\ pc' = LoopEntry("deref", "convert", resultDoc')
                   /\ idx' = 1
              ELSE /\ pc' = "validate"
                   /\ idx' = idx + 1
         /\ UNCHANGED outcome

\* one turn of the validation loop, up to the await of validateDocs
ValidateStep ==
  /\ pc = "validate"
  /\ LET docObj == docArr[idx] IN
     IF ~isValidOpenAPISpec(docObj)
       THEN \* throw new Error("INVALID_OPENAPI_SPEC"), caught by the outer catch
            /\ ValidationTurnDone(OuterCatch(docObj))
            /\ UNCHANGED <<worker, inbox, onmessage, posted, validateCalls>>
       ELSE /\ validateCalls' = Append(validateCalls, docObj)
            /\ worker' = getWorker
            /\ IF worker' = "null"
                 THEN \* Promise.resolve(docs)
                      /\ ValidationTurnDone(Caught(<<docObj>>, FALSE))
                      /\ UNCHANGED <<inbox, onmessage, posted>>
                 ELSE /\ inbox' = Append(inbox, [type |-> "validate", docs |-> docObj])
                      /\ posted' = Append(posted, [type |-> "validate", docs |-> docObj])
                      /\ onmessage' = "VALIDATION_RESULT"
                      /\ pc' = "awaitValidate"
                      /\ UNCHANGED <<resultDoc, idx, outcome>>
  /\ UNCHANGED <<fileContents, hasWindow, docArr, derefDoc, outbox, derefCalls,
                 convertCalls, validFail, derefFail, mockVars, convVars, numVars, hostVars>>

\* the dereference stage took what one loop turn produced
DerefTurnDone(c) ==
  IF c.escaped
    THEN /\ outcome' = Left(OPENAPI_DEREF_ERROR)
         /\ pc' = "done"
         /\ UNCHANGED <<derefDoc, idx>>
    ELSE /\ derefDoc' = derefDoc \o c.push
         /\ IF idx = Len(resultDoc)
              THEN /\ pc' = "convert"
                   /\ idx' = 1
              ELSE /\ pc' = "deref"
                   /\ idx' = idx + 1
         /\ UNCHANGED outcome

\* one turn of the dereference loop, up to the await of dereferenceDocs
DerefStep ==
  /\ pc = "deref"
  /\ LET docObj == resultDoc[idx] IN
     /\ derefCalls' = Append(derefCalls, docObj)
     /\ worker' = getWorker
     /\ IF worker' = "null"
          THEN \* SwaggerParser.dereference(cloneDeep(docs)) returns or throws;
               \* dereferenceDocs catches and returns docs
               /\ \E ok \in BOOLEAN :
                    /\ DerefTurnDone(Caught(<<IF ok THEN [docObj EXCEPT !.derefd = TRUE]
                                                    ELSE docObj>>, FALSE))
                    /\ derefFail' = IF ok THEN derefFail ELSE derefFail \cup {idx}
               /\ UNCHANGED <<inbox, onmessage, posted>>
          ELSE /\ inbox' = Append(inbox, [type |-> "dereference", docs |-> docObj])
               /\ posted' = Append(posted, [type |-> "dereference", docs |-> docObj])
               /\ onmessage' = "DEREFERENCE_RESULT"
               /\ pc' = "awaitDeref"
               /\ UNCHANGED <<derefDoc, idx, outcome, derefFail>>
  /\ UNCHANGED <<fileContents, hasWindow, docArr, resultDoc, outbox,
                 validateCalls, convertCalls, validFail, mockVars, convVars, numVars, hostVars>>

\* the worker handles its oldest request and posts the typed result
WorkerRespond ==
  /\ inbox # <<>>
  /\ LET req == Head(inbox) IN
     \E ok \in BOOLEAN :
       outbox' = Append(outbox,
         [type |-> IF req.type = "validate" THEN "VALIDATION_RESULT"
                   ELSE "DEREFERENCE_RESULT",
          isLeft |-> ~ok,
          right |-> IF req.type = "validate"
                      THEN [req.docs EXCEPT !.validated = TRUE]
                      ELSE [req.docs EXCEPT !.derefd = TRUE]])
  /\ inbox' = Tail(inbox)
  /\ UNCHANGED <<fileContents, hasWindow, worker, pc, idx, docArr, resultDoc,
                 derefDoc, outcome, onmessage, posted, validateCalls,
                 derefCalls, convertCalls, validFail, derefFail,
                 mockVars, convVars, numVars, hostVars>>

\* a handler that settles its promise on any message
OnMessageAnyType(data) == TRUE

\* if (event.data.type === "VALIDATION_RESULT") / "DEREFERENCE_RESULT"
OnMessageTypeTest(data) == data.type = onmessage

\* a message of the worker is delivered to the installed onmessage handler;
\* a settled promise resumes the loop turn that awaits it
WorkerMessage ==
  /\ outbox # <<>>
  /\ outbox' = Tail(outbox)
  /\ LET data == Head(outbox) IN
     IF OnMessageTypeTest(data) /\ pc = "awaitValidate"
       THEN /\ ValidationTurnDone(IF data.isLeft THEN ValidationCatch(docArr[idx])
                                  ELSE Caught(<<data.right>>, FALSE))
            /\ validFail' = IF data.isLeft THEN validFail \cup {idx} ELSE validFail
            /\ UNCHANGED <<derefDoc, derefFail>>
     ELSE IF OnMessageTypeTest(data) /\ pc = "awaitDeref"
       THEN /\ DerefTurnDone(IF data.isLeft THEN DerefCatch(resultDoc[idx])
                             ELSE Caught(<<data.right>>, FALSE))
            /\ derefFail' = IF data.isLeft THEN derefFail \cup {idx} ELSE derefFail
            /\ UNCHANGED <<resultDoc, validFail>>
     ELSE UNCHANGED <<pc, idx, resultDoc, derefDoc, outcome, validFail, derefFail>>
  /\ UNCHANGED <<fileContents, hasWindow, worker, docArr, inbox, onmessage,
                 posted, validateCalls, derefCalls, convertCalls,
                 mockVars, convVars, numVars, hostVars>>

\* TE.chainW(convertOpenApiDocsToHopp)
ImporterConvert ==
  /\ pc = "convert"
  /\ convertCalls' = Append(convertCalls, derefDoc)
  \* TE.chainW passes the documents only: fallbackBaseUrl is undefined
  /\ outcome' = convertOpenApiDocsToHopp(derefDoc, <<>>)
  /\ pc' = "done"
  /\ UNCHANGED <<fileContents, hasWindow, worker, idx, docArr, resultDoc,
                 derefDoc, inbox, outbox, onmessage, posted, validateCalls,
                 derefCalls, validFail, derefFail, mockVars, convVars, numVars, hostVars>>

NextImport ==
  \/ ImporterStart
  \/ ValidateStep
  \/ DerefStep
  \/ WorkerRespond
  \/ WorkerMessage
  \/ ImporterConvert

SpecImport == InitImport /\ [][NextImport]_vars

(***************************************************************************)
(* The importer with a worker that may fail to answer.  No timer and no    *)
(* cancellation exists in validateDocs or dereferenceDocs: the promise is  *)
(* settled by the onmessage handler or not at all.                         *)
(***************************************************************************)
ResultTypes == {"VALIDATION_RESULT", "DEREFERENCE_RESULT", "ERROR"}

\* a message whose type is not the result type of the request
OtherMessages(req) ==
  {[type |-> t, isLeft |-> FALSE, right |-> req.docs] :
     t \in ResultTypes \ {IF req.type = "validate" THEN "VALIDATION_RESULT"
                          ELSE "DEREFERENCE_RESULT"}}

\* the worker posts a message of another type while the request is still
\* in hand
WorkerStray ==
  /\ inbox # <<>>
  /\ outbox = <<>>
  /\ \E m \in OtherMessages(Head(inbox)) : outbox' = Append(outbox, m)
  /\ UNCHANGED <<fileContents, hasWindow, worker, pc, idx, docArr, resultDoc,
                 derefDoc, outcome, inbox, onmessage, posted, validateCalls,
                 derefCalls, convertCalls, validFail, derefFail,
                 mockVars, convVars, numVars, hostVars>>

\* the worker answers the request with a message of another type only
WorkerOther ==
  /\ inbox # <<>>
  /\ \E m \in OtherMessages(Head(inbox)) : outbox' = Append(outbox, m)
  /\ inbox' = Tail(inbox)
  /\ UNCHANGED <<fileContents, hasWindow, worker, pc, idx, docArr, resultDoc,
                 derefDoc, outcome, onmessage, posted, validateCalls,
                 derefCalls, convertCalls, validFail, derefFail,
                 mockVars, convVars, numVars, hostVars>>

\* the worker is done with the request without posting anything
WorkerSilent ==
  /\ inbox # <<>>
  /\ inbox' = Tail(inbox)
  /\ UNCHANGED <<fileContents, hasWindow, worker, pc, idx, docArr, resultDoc,
                 derefDoc, outcome, outbox, onmessage, posted, validateCalls,
                 derefCalls, convertCalls, validFail, derefFail,
                 mockVars, convVars, numVars, hostVars>>

\* the batches of the worker backend: window is defined
WorkerFiles ==
  {JsonText(DocV3), JsonText(DocV2), YamlText(DocV3), JsonText(DocPathsOnly),
   Unparseable}

InitImportWorker ==
  /\ InitImport
  /\ hasWindow
  /\ \A i \in 1..Len(fileContents) : fileContents[i] \in WorkerFiles

\* the async function runs to its next await or to the end of its loops
ImporterRuns == ImporterStart \/ ValidateStep \/ DerefStep

\* the worker settles what it does with its oldest request
WorkerSettles == WorkerRespond \/ WorkerOther \/ WorkerSilent

NextImportFair ==
  \/ ImporterRuns
  \/ ImporterConvert
  \/ WorkerMessage
  \/ WorkerSettles
  \/ WorkerStray

\* the importer's code runs when it can, the event loop delivers every
\* posted message, and the worker settles what it does with each request.
\* The last conjunct is WF_vars(ImporterConvert) written through its
\* enabling condition: ImporterConvert is enabled exactly when
\* pc = "convert", and it is the only step that leaves pc = "convert".
SpecImportFair ==
  /\ InitImportWorker
  /\ [][NextImportFair]_vars
  /\ WF_vars(ImporterRuns)
  /\ WF_vars(WorkerMessage)
  /\ WF_vars(WorkerSettles)
  /\ []<>(pc # "convert")

(***************************************************************************)
(* A host that calls validateDocs and dereferenceDocs itself, under the    *)
(* worker backend, without waiting for earlier calls.  Call k is made on   *)
(* document k.  A call records the state of the promise it returned and,   *)
(* as history, which request's result settled it (by), how often its       *)
(* resolve / reject ran (settles), whether a later call replaced its       *)
(* handler while it was unsettled (orphaned), and the call whose handler   *)
(* received the result of its request (deliveredTo, 0 before delivery).    *)
(***************************************************************************)
HostCallRecord(kind, doc) ==
  [kind |-> kind, doc |-> doc, state |-> "pending", value |-> 0, by |-> 0,
   settles |-> 0, orphaned |-> FALSE, deliveredTo |-> 0]

\* the result type a call's handler reacts to
ResultType(kind) ==
  IF kind = "validate" THEN "VALIDATION_RESULT" ELSE "DEREFERENCE_RESULT"

\* a handler that reacts only to the result for its own document
HandlerReactsToOwn(call, data) ==
  data.type = ResultType(call.kind) /\ data.right = call.doc

\* if (event.data.type === "VALIDATION_RESULT") / "DEREFERENCE_RESULT"
HandlerReacts(call, data) == data.type = ResultType(call.kind)

\* resolve / reject on a promise: only the first one settles it
Settle(call, data, req) ==
  IF call.state # "pending" THEN [call EXCEPT !.settles = @ + 1]
  ELSE [call EXCEPT !.state = IF data.isLeft THEN "rejected" ELSE "resolved",
                    !.value = IF data.isLeft THEN 0 ELSE data.right,
                    !.by = req,
                    !.settles = @ + 1]

InitHost ==
  /\ MockIdle
  /\ ConvIdle
  /\ NumIdle
  /\ hasWindow = TRUE
  /\ worker = "null"
  /\ fileContents = <<>> /\ pc = "idle" /\ idx = 0
  /\ docArr = <<>> /\ resultDoc = <<>> /\ derefDoc = <<>>
  /\ outcome = [tag |-> "pending"]
  /\ inbox = <<>> /\ outbox = <<>> /\ onmessage = "none" /\ posted = <<>>
  /\ validateCalls = <<>> /\ derefCalls = <<>> /\ convertCalls = <<>>
  /\ validFail = {} /\ derefFail = {}
  /\ HostIdle

\* validateDocs(docs) or dereferenceDocs(docs): getWorker, postMessage, then
\* onmessage is assigned the new call's handler
HostCall ==
  /\ Len(hCalls) < MaxCalls
  /\ worker' = getWorker
  /\ worker' # "null"
  /\ \E kind \in {"validate", "dereference"} :
       LET k == Len(hCalls) + 1 IN
       /\ hInbox' = Append(hInbox, [type |-> kind, docs |-> k, req |-> k])
       /\ hCalls' = Append([j \in 1..Len(hCalls) |->
                              IF hCalls[j].state = "pending"
                                THEN [hCalls[j] EXCEPT !.orphaned = TRUE]
                                ELSE hCalls[j]],
                           HostCallRecord(kind, k))
       /\ hHandler' = k
  /\ UNCHANGED <<hOutbox, fileContents, hasWindow, pc, idx, docArr, resultDoc,
                 derefDoc, outcome, inbox, outbox, onmessage, posted,
                 validateCalls, derefCalls, convertCalls, validFail, derefFail,
                 mockVars, convVars, numVars>>

\* the worker handles its oldest request and posts the typed result
HostWorkerRespond ==
  /\ hInbox # <<>>
  /\ LET req == Head(hInbox) IN
     \E ok \in BOOLEAN :
       hOutbox' = Append(hOutbox,
         [type |-> ResultType(req.type), isLeft |-> ~ok, right |-> req.docs,
          req |-> req.req])
  /\ hInbox' = Tail(hInbox)
  /\ UNCHANGED <<hCalls, hHandler, mockVars, convVars, impVars, numVars>>

\* a result is delivered to the handler that is installed now
HostDeliver ==
  /\ hOutbox # <<>>
  /\ hOutbox' = Tail(hOutbox)
  /\ LET data == Head(hOutbox)
         received == [hCalls EXCEPT ![data.req].deliveredTo = hHandler]
     IN hCalls' = IF HandlerReacts(hCalls[hHandler], data)
                    THEN [received EXCEPT
                            ![hHandler] = Settle(received[hHandler], data, data.req)]
                    ELSE received
  /\ UNCHANGED <<hHandler, hInbox, mockVars, convVars, impVars, numVars>>

NextHost == HostCall \/ HostWorkerRespond \/ HostDeliver

SpecHost == InitHost /\ [][NextHost]_vars

(***************************************************************************)
(* C1  generateMockFromSchema terminates on every finite schema graph,     *)
(* cyclic ones included.                                                    *)
(***************************************************************************)
\* number of recursive calls one activation on schema s can make
Fanout(s) ==
  Max2(IF s.minItems = NoMinItems THEN 1 ELSE s.minItems,
       Max2(Len(s.properties), Max2(Len(s.allOf), 1)))

RECURSIVE MaxFanout(_)
MaxFanout(n) == IF n = 0 THEN 1 ELSE Max2(Fanout(schemas[n]), MaxFanout(n - 1))

\* a function of the number of schema nodes and of the minItems values:
\* a descent path holds each node at most once, plus the call the guard stops
GraphCallBound == SumPow(MaxFanout(NumNodes), NumNodes)

IsValue(v) ==
  v.t \in {"null", "obj", "arr", "word", "num", "bool", "datauri"}

NeitherJsonNorYaml(str) == ~str.json.some /\ ~str.yaml.some

AllFilesParse ==
  \A i \in 1..Len(fileContents) : ~NeitherJsonNorYaml(fileContents[i])

\* the classifier's test as the specification words it
Classifiable(doc) ==
  /\ doc.isObject
  /\ doc.hasPaths
  /\ \/ doc.swagger.has /\ doc.swagger.isString
     \/ doc.openapi.has /\ doc.openapi.isString
     \/ doc.hasInfo

Sources(docs) == {docs[i].src : i \in 1..Len(docs)}

FlatSources(batches) == UNION {Sources(batches[i]) : i \in 1..Len(batches)}

IsLeft(o, e) == o.tag = "left" /\ o.error = e

(***************************************************************************)
(* C2  an unparseable file fails the whole batch                           *)
(***************************************************************************)
\* C2: once the importer has started on a batch holding a file that parses
\* neither as JSON nor as YAML, the call has returned
\* importer/invalid_file_format, and no document was validated,
\* dereferenced or converted and no message was posted to the worker.
C2_UnparseableFailsBatch ==
  (pc # "start" /\ ~AllFilesParse) =>
    /\ IsLeft(outcome, IMPORTER_INVALID_FILE_FORMAT)
    /\ pc = "done"
    /\ validateCalls = <<>> /\ derefCalls = <<>> /\ convertCalls = <<>>
    /\ posted = <<>> /\ resultDoc = <<>> /\ derefDoc = <<>>

\* a valid document followed by an unparseable file
C2_Witness ==
  /\ fileContents = <<JsonText(DocV3), Unparseable>>
  /\ pc = "done"
  /\ IsLeft(outcome, IMPORTER_INVALID_FILE_FORMAT)

(***************************************************************************)
(* C3  a dereference failure degrades to the document received             *)
(***************************************************************************)
\* C3: every document whose dereferencing failed is in the dereference
\* stage's output, at its index, exactly as the stage received it; the call
\* never returns openapi/deref_error; and a finished batch in which a
\* dereference failed has called the converter with the stage's output.
C3_DerefFailureDegrades ==
  /\ \A i \in derefFail :
       i <= Len(derefDoc) /\ derefDoc[i] = resultDoc[i]
  /\ ~IsLeft(outcome, OPENAPI_DEREF_ERROR)
  /\ (pc = "done" /\ derefFail # {}) => convertCalls = <<derefDoc>>

\* the worker answered a dereference request with a failure and the batch
\* was converted all the same
C3_Witness ==
  /\ hasWindow
  /\ pc = "done"
  /\ derefFail = {1}
  /\ Len(fileContents) = 1
  /\ outcome.tag = "right"
  /\ ~derefDoc[1].derefd

(***************************************************************************)
(* C4  a validation failure is advisory                                    *)
(***************************************************************************)
\* C4: every document with a paths member whose validateDocs promise was
\* rejected is in the validation stage's output, at its index, unvalidated;
\* the batch goes on (every document reaches dereferenceDocs) and the call
\* never returns an error because of it.
C4_ValidationFailureAdvisory ==
  /\ \A i \in validFail :
       docArr[i].hasPaths =>
         /\ i <= Len(resultDoc)
         /\ resultDoc[i] = docArr[i]
         /\ ~resultDoc[i].validated
  /\ validFail # {} => outcome.tag # "left"
  /\ (validFail # {} /\ pc = "done") => Len(derefCalls) = Len(docArr)

\* the worker rejected the validation of a document that has paths, and the
\* batch returned its collection
C4_Witness ==
  /\ hasWindow
  /\ pc = "done"
  /\ validFail = {1}
  /\ docArr[1].hasPaths
  /\ outcome.tag = "right"
  /\ Len(outcome.collections) = 1

(***************************************************************************)
(* C5  the classifier as a gate                                            *)
(***************************************************************************)
\* C5: a parsed document that fails the classifier's test is never an
\* argument of validateDocs, never an entry of the validation stage's
\* output, and never reaches dereferenceDocs or convertOpenApiDocsToHopp.
C5_UnclassifiedStopsHere ==
  \A i \in 1..Len(docArr) :
    ~Classifiable(docArr[i]) =>
      /\ i \notin Sources(validateCalls)
      /\ i \notin Sources(resultDoc)
      /\ i \notin Sources(derefCalls)
      /\ i \notin FlatSources(convertCalls)

(***************************************************************************)
(* C6  a batch without any classifiable document                           *)
(***************************************************************************)
\* C6: a finished call on a non-empty batch whose files all parse and none
\* of whose documents passes the classifier returned
\* importer/invalid_file_format.
C6_NoneClassifiableFails ==
  (/\ pc = "done"
   /\ fileContents # <<>>
   /\ AllFilesParse
   /\ \A i \in 1..Len(docArr) : ~Classifiable(docArr[i]))
    => IsLeft(outcome, IMPORTER_INVALID_FILE_FORMAT)

(***************************************************************************)
(* C7  one classifiable document is enough                                 *)
(***************************************************************************)
\* C7: a finished call on a batch whose files all parse and that holds a
\* classifiable document returned a success value holding a collection for
\* every classifiable document.
C7_ClassifiableConverted ==
  (/\ pc = "done"
   /\ AllFilesParse
   /\ \E i \in 1..Len(docArr) : Classifiable(docArr[i]))
    => /\ outcome.tag = "right"
       /\ \A i \in 1..Len(docArr) :
            Classifiable(docArr[i]) => i \in Sources(outcome.collections)

(***************************************************************************)
(* C8  every stage keeps the batch's order and length                      *)
(***************************************************************************)
\* C8: in the validation and in the dereference stage each loop turn adds
\* exactly one entry, the entry at index i comes from input file i, a stage
\* hands on as many documents as it received, and on success collection i
\* is the one of input file i.
C8_OrderAndLength ==
  /\ pc \in {"validate", "awaitValidate"} => Len(resultDoc) = idx - 1
  /\ pc \in {"deref", "awaitDeref"} => Len(derefDoc) = idx - 1
  /\ pc \in {"deref", "awaitDeref", "convert"} => Len(resultDoc) = Len(fileContents)
  /\ pc = "convert" => Len(derefDoc) = Len(fileContents)
  /\ \A i \in 1..Len(resultDoc) : resultDoc[i].src = i
  /\ \A i \in 1..Len(derefDoc) : derefDoc[i].src = i
  /\ \A k \in 1..Len(convertCalls) : Len(convertCalls[k]) = Len(fileContents)
  /\ outcome.tag = "right" =>
       /\ Len(outcome.collections) = Len(fileContents)
       /\ \A i \in 1..Len(fileContents) :
            /\ outcome.collections[i].src = i
            /\ outcome.collections[i].name = fileContents[i].yaml.value.title

\* two documents, the first degraded in validation (rejected by the worker),
\* the second in classification and in dereferencing
C8_Witness ==
  /\ hasWindow
  /\ fileContents = <<JsonText(DocV3), JsonText(DocNoPaths)>>
  /\ validFail = {1}
  /\ derefFail = {2}
  /\ outcome.tag = "right"
  /\ outcome.collections[1].name = "A"
  /\ outcome.collections[2].name = "D"

(***************************************************************************)
(* C9  the order of the requests on the worker                             *)
(***************************************************************************)
ValidateMsg(doc) == [type |-> "validate", docs |-> doc]
DereferenceMsg(doc) == [type |-> "dereference", docs |-> doc]

\* requests are never outstanding together, and none is outstanding when the
\* importer is not awaiting one
OneAtATime ==
  /\ Len(inbox) + Len(outbox) <= 1
  /\ pc \in {"awaitValidate", "awaitDeref"} <=> Len(inbox) + Len(outbox) = 1

\* C9 as claimed: under the worker backend the requests posted so far are the
\* first ones of validate(d1) .. validate(dn), dereference(d1') ..
\* dereference(dn'), one outstanding at a time, all of them posted and
\* settled when conversion starts.
C9_AllValidatedThenDereferenced ==
  hasWindow =>
    /\ OneAtATime
    /\ \A k \in 1..Len(posted) :
         IF k <= Len(docArr)
           THEN posted[k] = ValidateMsg(docArr[k])
           ELSE /\ Len(resultDoc) = Len(docArr)
                /\ posted[k] = DereferenceMsg(resultDoc[k - Len(docArr)])
    /\ convertCalls # <<>> => Len(posted) = 2 * Len(docArr)

\* the documents among the first n of the batch that pass the classifier
ClassifiablePrefix(n) == SelectSeq(SubSeq(docArr, 1, n), Classifiable)

\* the number of documents the validation loop is done with
ValidationTurns ==
  IF pc \in {"validate", "awaitValidate"} THEN idx
  ELSE IF pc = "start" THEN 0 ELSE Len(docArr)

\* C9 as amended: the validate requests are those of the documents that pass
\* the classifier, in batch order; the dereference requests are those of all
\* documents of the validation stage's output, in order, the first posted
\* after the last validation settled; one request is outstanding at a time
\* and all are settled when conversion starts.
C9_ClassifiableValidatedThenAllDereferenced ==
  hasWindow =>
    /\ OneAtATime
    /\ LET cls == ClassifiablePrefix(ValidationTurns) IN
       /\ \A k \in 1..Len(posted) :
            IF k <= Len(cls)
              THEN posted[k] = ValidateMsg(cls[k])
              ELSE /\ Len(resultDoc) = Len(docArr)
                   /\ pc \notin {"validate", "awaitValidate"}
                   /\ posted[k] = DereferenceMsg(resultDoc[k - Len(cls)])
       /\ pc \in {"deref", "awaitDeref", "convert"} \/ convertCalls # <<>> =>
            Len(posted) >= Len(cls)
       /\ convertCalls # <<>> =>
            /\ Len(posted) = Len(cls) + Len(docArr)
            /\ inbox = <<>> /\ outbox = <<>>

\* a classifiable document and one that is not: one validate request, two
\* dereference requests
C9_Witness ==
  /\ hasWindow
  /\ fileContents = <<JsonText(DocV3), JsonText(DocPathsOnly)>>
  /\ pc = "done"
  /\ Len(posted) = 3
  /\ posted[1].type = "validate"
  /\ posted[2].type = "dereference"
  /\ posted[3].docs.src = 2

(***************************************************************************)
(* C10  tag fan-out                                                        *)
(***************************************************************************)
\* positions <<folder, index>> of the requests in the folders of a collection
FolderPositions(col) ==
  {<<j, i>> : j \in 1..Len(col.folders), i \in 1..MaxOps * MaxTags} \cap
  UNION {{<<j, i>> : i \in 1..Len(col.folders[j].requests)} :
           j \in 1..Len(col.folders)}

RequestIn(col, p) == col.folders[p[1]].requests[p[2]]

Occurrences(seq, x) == Cardinality({j \in 1..Len(seq) : seq[j] = x})

\* objects the host has written to since the conversion
Written == {id \in DOMAIN heap : heap[id] > 0}

\* C10: once the converter has run it has returned collections in which
\* every operation with k >= 1 tags is absent from the root and present in
\* the folder named after each of its tags (as often as the tag is listed,
\* k times in all), and no two of these copies have an object in common, so
\* a write to one copy never shows in another.
C10_TagFanOut ==
  cOut.tag # "pending" =>
    /\ cOut.tag = "right"
    /\ LET col == cOut.collections[1]
           doc == cDocs[1]
       IN \A e \in 1..Len(doc.paths) : \A m \in DOMAIN doc.paths[e][2] :
            LET op == doc.paths[e][2][m]
                IsCopy(r) == r.path = doc.paths[e][1] /\ r.method = ToUpperCase(m)
                copies == {p \in FolderPositions(col) : IsCopy(RequestIn(col, p))}
            IN Len(op.tags) >= 1 =>
                 /\ \A i \in 1..Len(col.requests) : ~IsCopy(col.requests[i])
                 /\ Cardinality(copies) = Len(op.tags)
                 /\ \A t \in TagNames :
                      Cardinality({p \in copies : col.folders[p[1]].name = t})
                        = Occurrences(op.tags, t)
                 /\ \A p, q \in copies :
                      p # q =>
                        /\ ObjectsOf(RequestIn(col, p)) \cap ObjectsOf(RequestIn(col, q)) = {}
                        /\ ~(/\ Written \cap ObjectsOf(RequestIn(col, p)) # {}
                             /\ Written \cap ObjectsOf(RequestIn(col, q)) # {})

(***************************************************************************)
(* C11  the minimal OpenAPI 3 document                                     *)
(***************************************************************************)
\* {openapi: "3.0.0", info: {title: "T"}, paths: {"/x": {get:
\*   {operationId: "Op", responses: {"200": {description: "OK"}}}}}}
MinimalDoc ==
  MkDoc(TRUE,
        << <<PathX, [get |-> [Operation(<<>>) EXCEPT
                                !.hasResponses = TRUE,
                                !.responses = <<Response(Key200, TRUE, "OK")>>]]>> >>,
        NoMarker, Marker(TRUE, TRUE, "3.0.0"), TRUE, "T")

\* C11: converting the minimal document alone returns exactly one
\* collection, named "T", with no folders and exactly one request at the
\* root, named "Op", of method GET, with exactly one response stub, named
\* "OK", of code 200.
C11_MinimalDocument ==
  cDocs = <<MinimalDoc>> /\ cOut.tag # "pending" =>
    /\ cOut.tag = "right"
    /\ Len(cOut.collections) = 1
    /\ LET col == cOut.collections[1] IN
       /\ col.name = "T"
       /\ col.folders = <<>>
       /\ Len(col.requests) = 1
       /\ col.requests[1].name = "Op"
       /\ col.requests[1].method = "GET"
       /\ Cardinality(col.requests[1].responses) = 1
       /\ \A r \in col.requests[1].responses : r.name = "OK" /\ r.code = 200

C11_Witness ==
  /\ cDocs = <<MinimalDoc>>
  /\ cOut.tag = "right"
  /\ Len(cOut.collections[1].requests) = 1

(***************************************************************************)
(* Vocabulary of the converter claims.                                      *)
(***************************************************************************)
\* the requests of the first collection: those at the root and in folders
OutputRequests ==
  LET col == cOut.collections[1] IN
  {col.requests[i] : i \in 1..Len(col.requests)}
    \cup UNION {{col.folders[j].requests[i] :
                   i \in 1..Len(col.folders[j].requests)} :
                j \in 1..Len(col.folders)}

\* the operation a request was made from
OpOf(doc, request) ==
  LET e == CHOOSE e \in 1..Len(doc.paths) : doc.paths[e][1] = request.path
      m == CHOOSE m \in DOMAIN doc.paths[e][2] : ToUpperCase(m) = request.method
  IN doc.paths[e][2][m]

Converted == cOut.tag = "right"

(***************************************************************************)
(* C12  auth precedence                                                    *)
(***************************************************************************)
\* the scheme object registered under the name "s"
SchemeS(doc) ==
  IF doc.securitySchemes.has THEN doc.securitySchemes.entries[1][2]
  ELSE doc.securityDefinitions.entries[1][2]

\* C12: when the scheme an operation requires is registered with type
\* "http" and scheme "bearer", the conversion succeeds and the request's
\* auth type is bearer, whatever name, in, flows or flow the scheme object
\* also carries; a scheme of type "apiKey" gives api-key and one of type
\* "http" with scheme "basic" gives basic, whatever else it carries.
C12_BearerFirst ==
  cDocs[1] \in SchemeDocs /\ cOut.tag # "pending" =>
    LET sch == SchemeS(cDocs[1]) IN
    /\ sch.type = "http" /\ sch.scheme = "bearer" =>
         Converted /\ \A r \in OutputRequests : r.auth.authType = "bearer"
    /\ sch.type = "apiKey" =>
         Converted /\ \A r \in OutputRequests : r.auth.authType = "api-key"
    /\ sch.type = "http" /\ sch.scheme = "basic" =>
         Converted /\ \A r \in OutputRequests : r.auth.authType = "basic"

\* a bearer scheme that also carries the members of an API key and flows
C12_Witness ==
  /\ cDocs[1] \in SchemeDocs
  /\ Converted
  /\ LET sch == SchemeS(cDocs[1]) IN
     /\ sch.type = "http" /\ sch.scheme = "bearer"
     /\ sch.name = "X-Key" /\ sch.in = "query" /\ sch.hasFlows
  /\ \E r \in OutputRequests : r.auth.authType = "bearer"

(***************************************************************************)
(* C13  numeric values lie within the declared bounds                      *)
(***************************************************************************)
\* C13: for every schema of type integer or number, with minimum and
\* maximum each present or absent, the branch returns a value v with
\* (minimum ?? 1) <= v <= (maximum ?? 100); in particular it returns a
\* value when only one of the bounds is declared.
C13_NumericWithinBounds ==
  numOut.tag # "pending" =>
    /\ numOut.tag = "value"
    /\ NumericRange(numSchema).min * Unit <= numOut.v
    /\ numOut.v <= NumericRange(numSchema).max * Unit

ReceivedBy(j) ==
  {r \in 1..Len(hCalls) :
     hCalls[r].deliveredTo = j /\ hCalls[r].kind = hCalls[j].kind}

Least(S) == CHOOSE r \in S : \A q \in S : r <= q

\* the host has made no call while an earlier call was unsettled
NeverOverlapped == \A j \in 1..Len(hCalls) : ~hCalls[j].orphaned

\* C15: a call whose handler was replaced by a later call before its result
\* arrived is never settled, and its result goes to the handler of a later
\* call; a call is settled by the first result of its kind that its
\* handler receives, with the document of the request that result answers,
\* whichever call made that request; and as long as the host has not
\* overlapped calls, every result goes to the handler of its own call and
\* settles that call's promise, exactly once.
C15_NoSerialization ==
  /\ \A j \in 1..Len(hCalls) :
       LET c == hCalls[j] IN
       /\ c.orphaned => c.state = "pending" /\ c.settles = 0
       /\ c.deliveredTo # 0 => c.deliveredTo >= j
       /\ c.orphaned /\ c.deliveredTo # 0 => c.deliveredTo > j
       /\ ReceivedBy(j) = {} => c.state = "pending"
       /\ ReceivedBy(j) # {} =>
            /\ c.state # "pending"
            /\ c.by = Least(ReceivedBy(j))
            /\ c.state = "resolved" => c.value = hCalls[c.by].doc
            /\ c.settles = Cardinality(ReceivedBy(j))
  /\ NeverOverlapped =>
       \A j \in 1..Len(hCalls) :
         LET c == hCalls[j] IN
         /\ c.deliveredTo \in {0, j}
         /\ c.settles <= 1
         /\ c.deliveredTo = j =>
              c.state # "pending" /\ c.by = j /\ c.settles = 1

\* two validateDocs calls, the second made before the first result arrived:
\* the first result has resolved the second call with document 1, the
\* second result changed nothing, the first call is still pending
C15_Witness ==
  /\ Len(hCalls) >= 2
  /\ hCalls[1].kind = "validate" /\ hCalls[2].kind = "validate"
  /\ hCalls[1].orphaned /\ hCalls[1].state = "pending"
  /\ hCalls[1].deliveredTo = 2 /\ hCalls[2].deliveredTo = 2
  /\ hCalls[2].state = "resolved" /\ hCalls[2].by = 1 /\ hCalls[2].value = 1
  /\ hCalls[2].settles = 2
  /\ hInbox = <<>> /\ hOutbox = <<>>

(***************************************************************************)
(* C16  completion depends on the worker's typed answers                   *)
(***************************************************************************)
Awaiting == pc \in {"awaitValidate", "awaitDeref"}

\* the awaited request is out of the worker's hands and no message of the
\* awaited result type is on its way
Starved ==
  /\ Awaiting
  /\ inbox = <<>>
  /\ \A i \in 1..Len(outbox) : outbox[i].type # onmessage

\* C16: if every request is answered with a result message of its own
\* type, the import eventually completes, whatever other messages the
\* worker posts in between; once a request was dropped or answered only
\* with a message of another type, the importer stays at that await for
\* ever and the import never completes.
C16_CompletesIffAnswered ==
  /\ ([]~Starved) => <>(pc = "done")
  /\ [](Starved => [](Starved /\ pc # "done"))

\* a batch went through the worker for validation and for dereferencing and
\* the import completed
C16_Witness ==
  /\ hasWindow
  /\ pc = "done"
  /\ \E i \in 1..Len(posted) : posted[i].type = "validate"
  /\ \E i \in 1..Len(posted) : posted[i].type = "dereference"
  /\ inbox = <<>> /\ outbox = <<>>

(***************************************************************************)
(* C18  one dialect for every dialect-dependent decision                   *)
(***************************************************************************)
\* the dialect whose registry the scheme lookup read
RegistryDialect(registry) ==
  CASE registry = "components" -> "v3"
    [] registry = "securityDefinitions" -> "v2"
    [] OTHER -> "none"

\* the dialects by whose rules a request was built
DialectsUsed(request) ==
  ({request.body.rule, request.urlRule, RegistryDialect(request.auth.registry)}
     \cup {stub.rule : stub \in request.responses}) \ {"none"}

\* C18: the body, the response stubs, the endpoint's base url and the
\* security scheme of every request of a converted document were all
\* obtained by the rules of one dialect.
C18_SingleDialect ==
  Converted => \A r \in OutputRequests : Cardinality(DialectsUsed(r)) = 1

(***************************************************************************)
(* C19  the endpoint is the collection's base url joined with the path     *)
(***************************************************************************)
\* C19: every request's endpoint is the baseUrl of its root collection
\* (extractBaseUrl(doc, fallbackBaseUrl)) joined with the path in which
\* {name} became <<name>>, with one slash at the join.
C19_EndpointFromBaseUrl ==
  Converted =>
    \A r \in OutputRequests :
      r.endpoint = Endpoint(cOut.collections[1].baseUrl,
                            replaceOpenApiPathTemplating(r.path))

(***************************************************************************)
(* C20  the snapshot shares no object with the live request                *)
(***************************************************************************)
\* the live request's own objects: the request and its nested objects
LiveObjects(request) ==
  {request.oid} \cup {request.parts[f] : f \in DOMAIN request.parts}

\* the nested objects of the live request the claim writes to
LiveWritable(request) ==
  {request.parts[f] : f \in {"params", "headers", "auth", "requestVariables"}}

\* C20: every stub of a request holds that request's snapshot; the
\* snapshot has a params, headers, auth, body and requestVariables object
\* of its own, five different objects, none of them an object of the live
\* request or of any other request of the output; so after the host wrote
\* to an object of a live request no object of any snapshot is written.
C20_SnapshotNotShared ==
  Converted =>
    \A r \in OutputRequests :
      /\ \A stub \in r.responses : stub.originalRequest = r.snapshot.oid
      /\ DOMAIN r.snapshot.parts =
           {"params", "headers", "auth", "body", "requestVariables"}
      /\ \A f, g \in DOMAIN r.snapshot.parts :
           f # g => r.snapshot.parts[f] # r.snapshot.parts[g]
      /\ r.snapshot.oid \notin {r.snapshot.parts[f] : f \in DOMAIN r.snapshot.parts}
      /\ \A q \in OutputRequests :
           /\ SnapshotObjects(r) \cap LiveObjects(q) = {}
           /\ Written \cap LiveObjects(q) # {} => Written \cap SnapshotObjects(r) = {}

\* the host wrote to the params, headers, auth or requestVariables object
\* of a converted request that has a response stub
C20_Witness ==
  /\ Converted
  /\ \E r \in OutputRequests :
       /\ r.responses # {}
       /\ Written \cap LiveWritable(r) # {}

(***************************************************************************)
(* C17  which security list and which registry                             *)
(***************************************************************************)
\* the list the claim names: the operation's when it declares one, else
\* the document's; <<>> when neither declares one
ClaimedSecurity(doc, op) ==
  IF op.hasSecurity THEN op.security
  ELSE IF doc.hasSecurity THEN doc.security ELSE <<>>

\* the names registered in components.securitySchemes, else in
\* securityDefinitions
Registered(doc) ==
  LET reg == IF doc.securitySchemes.has THEN doc.securitySchemes.entries
             ELSE IF doc.securityDefinitions.has
               THEN doc.securityDefinitions.entries
             ELSE <<>>
  IN {reg[j][1] : j \in 1..Len(reg)}

\* C17: the auth of a request follows the operation's own security list
\* whenever the operation declares one, empty or not, and the document's
\* list only otherwise: it is none when that list is absent or empty or
\* its first requirement names a scheme that is not registered, bearer
\* when it names the registered bearer scheme and api-key when it names
\* the registered API key scheme.
C17_EffectiveSecurity ==
  cDocs[1] \in SecurityDocs /\ cOut.tag # "pending" =>
    /\ Converted
    /\ \A r \in OutputRequests :
         LET sec == ClaimedSecurity(cDocs[1], OpOf(cDocs[1], r)) IN
         /\ sec = <<>> => r.auth.authType = "none"
         /\ sec # <<>> /\ sec[1] # <<>> /\ sec[1][1] \notin Registered(cDocs[1])
              => r.auth.authType = "none"
         /\ sec # <<>> /\ sec[1] # <<>> /\ sec[1][1] \in Registered(cDocs[1])
              => r.auth.authType = IF sec[1][1] = "b" THEN "bearer" ELSE "api-key"

\* the operation declares an empty list, the document requires the
\* registered bearer scheme: none
C17_Witness ==
  /\ cDocs[1] \in SecurityDocs
  /\ Converted
  /\ \E r \in OutputRequests :
       LET op == OpOf(cDocs[1], r) IN
       /\ op.hasSecurity /\ op.security = <<>>
       /\ cDocs[1].hasSecurity /\ cDocs[1].security = << <<"b">> >>
       /\ "b" \in Registered(cDocs[1])
       /\ r.auth.authType = "none"

(***************************************************************************)
(* C21  sibling array elements do not share a visited set                  *)
(***************************************************************************)
\* every array inside v has elements that are all the same value
RECURSIVE ElementsAlike(_)
ElementsAlike(v) ==
  /\ v.t = "arr" => \A i, j \in 1..Len(v.kids) : v.kids[i][2] = v.kids[j][2]
  /\ \A i \in 1..Len(v.kids) : ElementsAlike(v.kids[i][2])

\* C21: the call made for an array element runs on a visited set of its
\* own, which at its entry equals the array activation's set; the elements
\* an array activation has collected are all the same value, so none of
\* them is the guard's empty object unless the first one is; and every
\* array in the returned value has elements of one shape.
C21_ElementsIndependent ==
  /\ \A k \in 1..Len(stack) :
       stack[k].kind = "arr" =>
         /\ \A i, j \in 1..Len(stack[k].acc) :
              stack[k].acc[i][2] = stack[k].acc[j][2]
         /\ k < Len(stack) =>
              /\ stack[k + 1].vs # stack[k].vs
              /\ stack[k + 1].phase = "enter" =>
                   sets[stack[k + 1].vs] = sets[stack[k].vs]
  /\ mockPc = "done" => ElementsAlike(result)

\* an array of two objects was returned: the item schema and the schema of
\* its property were visited by the first element, and the second element
\* is an object with that property all the same
C21_Witness ==
  /\ mockPc = "done"
  /\ schemas[1].type = "array"
  /\ schemas[1].minItems >= 2
  /\ result.t = "arr"
  /\ Len(result.kids) >= 2
  /\ result.kids[2][2].t = "obj"
  /\ result.kids[2][2].kids # <<>>

(***************************************************************************)
(* C23  the cycle guard fires on ancestors only                            *)
(***************************************************************************)
\* the schema nodes of the activations below the newest one
Ancestors == {stack[k].node : k \in 1..(Len(stack) - 1)}

\* an object whose two properties are the same string schema node
TwoPropertiesOneNode ==
  /\ schemas[1] = ObjectSchema("object", <<2, 2>>)
  /\ schemas[2] = Leaf("string")

\* C23: an activation whose entry finds its schema in the visited set (and
\* so returns the empty object) is on a schema that an activation below it
\* on the stack is on; and for an object whose two properties are one and
\* the same string node the generator returns a string for both.
C23_GuardOnlyOnAncestors ==
  /\ (mockPc = "run" /\ stack # <<>> /\ Top.phase = "enter" /\ GuardHit(Top))
       => Top.node \in Ancestors
  /\ (mockPc = "done" /\ TwoPropertiesOneNode)
       => result = Val("obj", << <<1, WordVal>>, <<2, WordVal>> >>)

(***************************************************************************)
(* C22  one request per operation, placed by tags                          *)
(***************************************************************************)
\* the operations of a document: <<path entry, verb>>
OperationsOf(doc) ==
  {<<e, m>> : e \in 1..Len(doc.paths), m \in {Verbs[j] : j \in 1..Len(Verbs)}} \cap
  UNION {{<<e, m>> : m \in DOMAIN doc.paths[e][2]} : e \in 1..Len(doc.paths)}

\* the sum over the operations in ops of max(1, number of tags)
RECURSIVE PlacesOf(_, _)
PlacesOf(doc, ops) ==
  IF ops = {} THEN 0
  ELSE LET o == CHOOSE o \in ops : TRUE IN
       Max2(1, Len(doc.paths[o[1]][2][o[2]].tags)) + PlacesOf(doc, ops \ {o})

\* C22: once the converter has run it has returned a collection in which
\* an operation without tags is at the root once and in no folder, an
\* operation with tags is not at the root and is in the folders named
\* after its tags, once per listed tag, and in no other folder; every
\* request of the output is made from an operation of the document; the
\* output holds sum of max(1, number of tags) requests; and there is
\* exactly one folder per distinct tag.
C22_OnePerOperation ==
  cOut.tag # "pending" =>
    /\ cOut.tag = "right"
    /\ LET col == cOut.collections[1]
           doc == cDocs[1]
           ops == OperationsOf(doc)
           Made(r, o) == r.path = doc.paths[o[1]][1] /\ r.method = ToUpperCase(o[2])
           allTags == UNION {{doc.paths[o[1]][2][o[2]].tags[i] :
                                i \in 1..Len(doc.paths[o[1]][2][o[2]].tags)} :
                             o \in ops}
       IN
       /\ \A o \in ops :
            LET tags == doc.paths[o[1]][2][o[2]].tags
                atRoot == {i \in 1..Len(col.requests) : Made(col.requests[i], o)}
                inFolders == {p \in FolderPositions(col) : Made(RequestIn(col, p), o)}
            IN /\ Cardinality(atRoot) = IF tags = <<>> THEN 1 ELSE 0
               /\ Cardinality(inFolders) = Len(tags)
               /\ {col.folders[p[1]].name : p \in inFolders}
                    = {tags[i] : i \in 1..Len(tags)}
       /\ \A i \in 1..Len(col.requests) : \E o \in ops : Made(col.requests[i], o)
       /\ \A p \in FolderPositions(col) : \E o \in ops : Made(RequestIn(col, p), o)
       /\ Len(col.requests) + Cardinality(FolderPositions(col)) = PlacesOf(doc, ops)
       /\ Len(col.folders) = Cardinality(allTags)
       /\ {col.folders[j].name : j \in 1..Len(col.folders)} = allTags

(***************************************************************************)
(* C24  one stub per declared response                                     *)
(***************************************************************************)
\* the entries of an operation's `responses` object
DeclaredResponses(op) == IF op.hasResponses THEN op.responses ELSE <<>>

\* the code the claim gives a response key: its number, 200 if it has none
CodeOfKey(key) == IF key.numberNaN THEN DefaultCode ELSE key.number

\* C24: every converted request has as many stubs as its operation
\* declares responses, and for each declared response a stub whose code is
\* the number of that response's key (200 for a key that is no number).
C24_OneStubPerResponse ==
  Converted =>
    \A r \in OutputRequests :
      LET declared == DeclaredResponses(OpOf(cDocs[1], r)) IN
      /\ Cardinality(r.responses) = Len(declared)
      /\ \A i \in 1..Len(declared) :
           \E stub \in r.responses : stub.code = CodeOfKey(declared[i].key)

(***************************************************************************)
(* C25  parseOpenAPIAuth is total                                          *)
(***************************************************************************)
AuthTypes == {"none", "bearer", "api-key", "basic", "oauth-2"}

GrantTypes ==
  {"IMPLICIT", "PASSWORD", "CLIENT_CREDENTIALS", "AUTHORIZATION_CODE"}

\* C25: once the converter has run on a document, parseOpenAPIAuth has
\* returned, for the document's operation, an auth value of one of the
\* five auth types, with one of the four grant types when it is oauth-2,
\* and the conversion has not ended by an exception.
C25_AuthTotal ==
  cOut.tag # "pending" =>
    /\ cOut.tag = "right"
    /\ \A r \in OutputRequests :
         /\ r.auth = parseOpenAPIAuth(cDocs[1], OpOf(cDocs[1], r))
         /\ r.auth.authType \in AuthTypes
         /\ r.auth.authType = "oauth-2" => r.auth.grantType \in GrantTypes

(***************************************************************************)
(* C26  the snapshot's body equals the request's body                      *)
(***************************************************************************)
\* C26: in every converted request the body held by the snapshot of its
\* response stubs has the content type and the payload of the request's
\* own body.
C26_SnapshotBodyEqual ==
  Converted =>
    \A r \in OutputRequests :
      /\ r.responses # {}
      /\ r.snapshot.body.contentType = r.body.contentType
      /\ r.snapshot.body.body = r.body.body
====
